---- MODULE Spec2Model ----
(***************************************************************************)
(* A model of the EduShield multi-signal phishing detector:                *)
(*   app/detector.py            predictor, URL filter, explainability      *)
(*   app/core/predictor.py      the older predictor kept beside it         *)
(*   app/core/url_filter.py     the older URL filter kept beside it        *)
(*   app/utils/emotional_analyzer.py                                       *)
(*   app/core/routes.py         the /detect handler (Stage-2 fusion)       *)
(*                                                                         *)
(* Email texts are TLA+ strings and are analysed character by character,   *)
(* as the Python code does.  Python floats are modelled as exact rationals *)
(* <<numerator, denominator>>; round(x, 2) is modelled on the exact value. *)
(* The round-off of binary floating point is not modelled: a sum that is   *)
(* exactly 0.45 here can be 0.44999999999999996 in Python.                 *)
(***************************************************************************)
EXTENDS Integers, Sequences, FiniteSets, TLC

(***************************************************************************)
(* Bounds of the model.                                                    *)
(***************************************************************************)
\* number of links that follow the body of a text
MaxUrls == 2
\* repetitions of each trigger word inside the heavy fragment
Rep == 9
\* classifier probabilities are the multiples of 1/EGrid in [0, 1]
EGrid == 1

(***************************************************************************)
(* Exact rational arithmetic standing for Python floats.                   *)
(***************************************************************************)
RECURSIVE GCD(_, _)
GCD(a, b) == IF b = 0 THEN a ELSE GCD(b, a % b)

Abs(n) == IF n < 0 THEN -n ELSE n

\* the rational n/d in lowest terms, d > 0
Q(n, d) ==
    LET g == GCD(Abs(n), Abs(d))
        s == IF d < 0 THEN -1 ELSE 1
    IN  <<(s * n) \div g, (s * d) \div g>>

QInt(n) == <<n, 1>>

QLcm(a, b) == (a[2] \div GCD(a[2], b[2])) * b[2]

QAdd(a, b) ==
    LET l == QLcm(a, b)
    IN  Q(a[1] * (l \div a[2]) + b[1] * (l \div b[2]), l)

QMul(a, b) ==
    LET g1 == GCD(Abs(a[1]), b[2])
        g2 == GCD(Abs(b[1]), a[2])
    IN  Q((a[1] \div g1) * (b[1] \div g2), (a[2] \div g2) * (b[2] \div g1))

QDivInt(a, n) == QMul(a, Q(1, n))

QLe(a, b) ==
    LET l == QLcm(a, b)
    IN  a[1] * (l \div a[2]) <= b[1] * (l \div b[2])

QLt(a, b) == ~QLe(b, a)
QGe(a, b) == QLe(b, a)
QGt(a, b) == ~QLe(a, b)
QMin(a, b) == IF QLe(a, b) THEN a ELSE b
QMax(a, b) == IF QLe(a, b) THEN b ELSE a

\* floor of a non-negative rational
QFloor(a) == a[1] \div a[2]

\* Python round(x, k) for x >= 0 with scale = 10^k, on the exact value
\* (a tie goes to the even neighbour, as round() does on an exact tie)
QRound(a, scale) ==
    LET n == a[1] * scale
        d == a[2]
        f == n \div d
        r2 == 2 * (n - f * d)
    IN  IF r2 < d THEN Q(f, scale)
        ELSE IF r2 > d THEN Q(f + 1, scale)
        ELSE IF f % 2 = 0 THEN Q(f, scale) ELSE Q(f + 1, scale)

RECURSIVE QSum(_)
QSum(seq) == IF seq = <<>> THEN QInt(0) ELSE QAdd(Head(seq), QSum(Tail(seq)))

(***************************************************************************)
(* Strings.                                                                *)
(***************************************************************************)
At(s, i) == SubSeq(s, i, i)

\* s[i..] starts with p
StartsAt(s, i, p) == i >= 1 /\ i + Len(p) - 1 <= Len(s) /\ SubSeq(s, i, i + Len(p) - 1) = p

\* positions at which p occurs in s
Occurrences(s, p) == {i \in 1..(Len(s) - Len(p) + 1) : SubSeq(s, i, i + Len(p) - 1) = p}

\* Python's ^p in s^
Contains(s, p) == Occurrences(s, p) # {}

\* Python's s.count(p); the scan is non-overlapping, which is the number of
\* occurrences for every p that is not a proper prefix and suffix of itself
\* overlapping (true of every literal counted in this model)
StrCount(s, p) == Cardinality(Occurrences(s, p))

EndsWith(s, p) == Len(p) <= Len(s) /\ SubSeq(s, Len(s) - Len(p) + 1, Len(s)) = p

Digits == {"0", "1", "2", "3", "4", "5", "6", "7", "8", "9"}

LowerLetters == {"a", "b", "c", "d", "e", "f", "g", "h", "i", "j", "k", "l", "m",
                 "n", "o", "p", "q", "r", "s", "t", "u", "v", "w", "x", "y", "z"}

UpperLetters == {"A", "B", "C", "D", "E", "F", "G", "H", "I", "J", "K", "L", "M",
                 "N", "O", "P", "Q", "R", "S", "T", "U", "V", "W", "X", "Y", "Z"}

\* the characters matched by the regex class \w (ASCII part)
WordChars == LowerLetters \cup UpperLetters \cup Digits \cup {"_"}

Whitespace == {" ", "\t", "\n", "\r"}

RECURSIVE RepeatStr(_, _)
RepeatStr(s, n) == IF n = 0 THEN "" ELSE s \o RepeatStr(s, n - 1)

\* regex \b before position i / after position j of s
BoundaryBefore(s, i) == (i = 1 \/ At(s, i - 1) \notin WordChars) /\ At(s, i) \in WordChars
BoundaryAfter(s, j) == (j = Len(s) \/ At(s, j + 1) \notin WordChars) /\ At(s, j) \in WordChars

\* positions where \b(p)\b matches, p a literal starting and ending in \w
WordOccurrences(s, p) ==
    {i \in Occurrences(s, p) : BoundaryBefore(s, i) /\ BoundaryAfter(s, i + Len(p) - 1)}

\* Python's s.strip()
Strip(s) ==
    LET keep == {i \in 1..Len(s) : At(s, i) \notin Whitespace}
    IN  IF keep = {} THEN ""
        ELSE LET lo == CHOOSE i \in keep : \A j \in keep : i <= j
                 hi == CHOOSE i \in keep : \A j \in keep : j <= i
             IN  SubSeq(s, lo, hi)

(***************************************************************************)
(* The email texts explored.                                               *)
(***************************************************************************)
\* a message in which every indicator category and the urgency/fear/anxiety
\* triad occur, the three triad words Rep times each
PhishFragment ==
    "verify account click here banking details won"
        \o RepeatStr(" urgent", Rep) \o RepeatStr(" locked", Rep) \o RepeatStr(" error", Rep)

\* three urgency phrases and a request for credentials, each once
PressureFragment == "urgent hurry asap banking details"

WordFragments == <<"hello", "see you in class", "urgent today", "reward error",
                   PressureFragment, PhishFragment>>

UrlFragments == <<"http://bit.ly/x", "http://192.168.1.1/login", "http://xn--a.tk/login",
                  "https://example.com">>

\* a whitespace-only text long enough to pass the length check of /detect
WhitespaceText == RepeatStr(" ", 12)

RECURSIVE Join(_)
Join(fs) == IF fs = <<>> THEN ""
            ELSE IF Len(fs) = 1 THEN fs[1]
            ELSE fs[1] \o " " \o Join(Tail(fs))

\* the fragments of fs with an index in picked, in the order of fs
Picked(fs, picked) == SelectSeq([k \in DOMAIN fs |-> IF k \in picked THEN fs[k] ELSE ""],
                                LAMBDA f : f # "")

\* a text is a body (one word fragment, or none) followed by at most MaxUrls
\* links, single spaces between them; "" is the text with neither
Texts ==
    {Join(Picked(WordFragments, ws) \o Picked(UrlFragments, us)) :
        ws \in {w \in SUBSET DOMAIN WordFragments : Cardinality(w) <= 1},
        us \in {u \in SUBSET DOMAIN UrlFragments : Cardinality(u) <= MaxUrls}}
    \cup {WhitespaceText}

\* texts with bare www links, a link written twice and three links
LinkTexts ==
    {"visit www.example.com now", "https://www.example.com/login",
     "http://bit.ly/x and http://bit.ly/x again",
     "http://bit.ly/x http://192.168.1.1/login http://xn--a.tk/login",
     "www.example.com http://bit.ly/x", "mail www\\.example.com now"}

(***************************************************************************)
(* Configuration tables (app/config.py).                                   *)
(***************************************************************************)
SUSPICIOUS_TLDS == {".tk", ".ml", ".ga", ".cf", ".gq", ".xyz", ".top", ".work"}

URL_SHORTENERS == {"bit.ly", "t.co", "tinyurl.com", "goo.gl", "ow.ly", "is.gd", "buff.ly"}

\* the two copies of the URL filter and of the predictor
Impls == {"detector", "core"}

(***************************************************************************)
(* str.lower().                                                            *)
(***************************************************************************)
LowerChar(c) ==
    IF c \in UpperLetters
    THEN CASE c = "A" -> "a" [] c = "B" -> "b" [] c = "C" -> "c" [] c = "D" -> "d"
           [] c = "E" -> "e" [] c = "F" -> "f" [] c = "G" -> "g" [] c = "H" -> "h"
           [] c = "I" -> "i" [] c = "J" -> "j" [] c = "K" -> "k" [] c = "L" -> "l"
           [] c = "M" -> "m" [] c = "N" -> "n" [] c = "O" -> "o" [] c = "P" -> "p"
           [] c = "Q" -> "q" [] c = "R" -> "r" [] c = "S" -> "s" [] c = "T" -> "t"
           [] c = "U" -> "u" [] c = "V" -> "v" [] c = "W" -> "w" [] c = "X" -> "x"
           [] c = "Y" -> "y" [] c = "Z" -> "z"
    ELSE c

RECURSIVE Lower(_)
Lower(s) ==
    IF Len(s) = 0 THEN ""
    ELSE IF Len(s) = 1 THEN LowerChar(s)
    ELSE LET h == Len(s) \div 2
         IN  Lower(SubSeq(s, 1, h)) \o Lower(SubSeq(s, h + 1, Len(s)))

(***************************************************************************)
(* URL extraction (detector.py 259-265, url_filter.py 33-51).              *)
(***************************************************************************)
\* the characters of [a-zA-Z] | [0-9] | [$-_@.&+] | [!*\\(\\),] ; the range
\* $-_ spans 0x24..0x5F, and a %XX escape is made of characters of the class
UrlClassChars ==
    LowerLetters \cup UpperLetters \cup Digits \cup
    {"$", "%", "&", "'", "(", ")", "*", "+", ",", "-", ".", "/", ":", ";", "<", "=",
     ">", "?", "@", "[", "\\", "]", "^", "_", "!"}

\* last position of the maximal run of URL-class characters starting at k
\* (k - 1 when there is none)
ClassRunEnd(s, k) ==
    LET bad == {j \in k..Len(s) : At(s, j) \notin UrlClassChars}
    IN  IF bad = {} THEN Len(s)
        ELSE (CHOOSE j \in bad : \A j2 \in bad : j <= j2) - 1

\* length of the prefix http[s]?:// matched at i (0 when it does not match)
SchemeLenAt(s, i) ==
    IF StartsAt(s, i, "https://") \/ (i + 7 <= Len(s) /\ Lower(SubSeq(s, i, i + 7)) = "https://")
    THEN 8
    ELSE IF i + 6 <= Len(s) /\ Lower(SubSeq(s, i, i + 6)) = "http://" THEN 7
    ELSE 0

\* length of the prefix of the www pattern matched at i: url_filter.py has
\* www\. (a dot); detector.py has the raw string 'www\\.', which is the regex
\* "www", a backslash, any character
WwwLenAt(impl, s, i) ==
    IF impl = "core"
    THEN IF i + 3 <= Len(s) /\ Lower(SubSeq(s, i, i + 3)) = "www." THEN 4 ELSE 0
    ELSE IF i + 4 <= Len(s) /\ Lower(SubSeq(s, i, i + 3)) = "www\\" /\ At(s, i + 4) # "\n"
         THEN 5 ELSE 0

\* the spans <<first, last>> that re.findall(prefix (class)+) returns: a
\* candidate inside an earlier match is not a match of its own
FindSpans(impl, s, pattern) ==
    LET PrefixLen(i) == IF pattern = "url_pattern" THEN SchemeLenAt(s, i)
                        ELSE WwwLenAt(impl, s, i)
        cand == {i \in 1..Len(s) : PrefixLen(i) > 0 /\ ClassRunEnd(s, i + PrefixLen(i)) >= i + PrefixLen(i)}
        span(i) == <<i, ClassRunEnd(s, i + PrefixLen(i))>>
    IN  {span(i) : i \in {c \in cand : ~\E k \in cand : k < c /\ span(k)[2] >= c}}

\* the de-duplicated URLs of the text, as the set that list(set(urls)) holds
extract_urls(impl, text) ==
    LET http == FindSpans(impl, text, "url_pattern")
        www == FindSpans(impl, text, "www_pattern")
    IN  {SubSeq(text, sp[1], sp[2]) : sp \in http}
            \cup {"http://" \o SubSeq(text, sp[1], sp[2]) : sp \in www}

\* the orders in which list(set(urls)) may enumerate the set (the order of
\* a Python set of strings changes with the hash seed of the process)
Enumerations(S) == {f \in [1..Cardinality(S) -> S] : \A i, j \in DOMAIN f : i # j => f[i] # f[j]}

(***************************************************************************)
(* urllib.parse.urlparse, for URLs that carry a scheme.                    *)
(***************************************************************************)
\* extract_urls computed once for every text of the model
extracted_urls ==
    [impl \in Impls, text \in Texts \cup LinkTexts |-> extract_urls(impl, text)]

FirstOf(S, default) == IF S = {} THEN default ELSE CHOOSE i \in S : \A j \in S : i <= j

\* the netloc is url[p0..nlEnd], the fragment starts at fragAt and the
\* query at qAt
UrlParts(url, p0, nlEnd, fragAt, qAt) ==
    [netloc |-> SubSeq(url, p0, nlEnd),
     path |-> SubSeq(url, nlEnd + 1, qAt - 1),
     query |-> SubSeq(url, qAt + 1, fragAt - 1)]

SplitQuery(url, p0, nlEnd, fragAt) ==
    UrlParts(url, p0, nlEnd, fragAt,
             FirstOf({i \in (nlEnd + 1)..(fragAt - 1) : At(url, i) = "?"}, fragAt))

SplitFragment(url, p0, nlEnd) ==
    SplitQuery(url, p0, nlEnd,
               FirstOf({i \in (nlEnd + 1)..Len(url) : At(url, i) = "#"}, Len(url) + 1))

SplitNetloc(url, p0) ==
    SplitFragment(url, p0,
                  FirstOf({i \in p0..Len(url) : At(url, i) \in {"/", "?", "#"}},
                          Len(url) + 1) - 1)

urlparse(url) ==
    IF Occurrences(url, "://") = {}
    THEN [netloc |-> "", path |-> url, query |-> ""]
    ELSE SplitNetloc(url, FirstOf(Occurrences(url, "://"), 0) + 3)

\* urlparse raises ValueError on an unbalanced IPv6 bracket in the netloc
BracketsUnbalanced(netloc) == Contains(netloc, "[") # Contains(netloc, "]")

urlparse_raises(url) == BracketsUnbalanced(urlparse(url).netloc)

\* parsed.netloc or parsed.path.split('/')[0]
NetlocOrPathHead(parsed) ==
    IF parsed.netloc # "" THEN parsed.netloc
    ELSE SubSeq(parsed.path, 1,
                FirstOf(Occurrences(parsed.path, "/"), Len(parsed.path) + 1) - 1)

hostname_of(url) == NetlocOrPathHead(urlparse(url))

(***************************************************************************)
(* Per-URL checks (detector.py 268-353, url_filter.py 54-214).             *)
(***************************************************************************)
AllDigits(s, lo, hi) == \A i \in lo..hi : At(s, i) \in Digits

\* ^(?:[0-9]{1,3} SEP){3}[0-9]{1,3}$ where SEP is sepWidth characters long
\* and starts at a position of seps
QuadMatch(h, seps, sepWidth) ==
    \E b1, b2, b3 \in seps :
        /\ b1 < b2 /\ b2 < b3
        /\ b1 - 1 \in 1..3 /\ AllDigits(h, 1, b1 - 1)
        /\ b1 + sepWidth - 1 <= Len(h)
        /\ b2 - (b1 + sepWidth) \in 1..3 /\ AllDigits(h, b1 + sepWidth, b2 - 1)
        /\ b3 - (b2 + sepWidth) \in 1..3 /\ AllDigits(h, b2 + sepWidth, b3 - 1)
        /\ Len(h) - (b3 + sepWidth) + 1 \in 1..3 /\ AllDigits(h, b3 + sepWidth, Len(h))

\* url_filter.py: r'^(?:[0-9]{1,3}\.){3}[0-9]{1,3}$'   (a literal dot)
\* detector.py:   r'^(?:[0-9]{1,3}\\.){3}[0-9]{1,3}$'  (a backslash, then any
\*                character): a dotted quad never matches it
IpPatternMatches(impl, hostname) ==
    IF impl = "core"
    THEN QuadMatch(hostname, Occurrences(hostname, "."), 1)
    ELSE QuadMatch(hostname, Occurrences(hostname, "\\"), 2)

is_ip_address_url(impl, url) ==
    IF urlparse_raises(url) THEN FALSE
    ELSE IpPatternMatches(impl, hostname_of(url))

is_url_shortener(url) ==
    IF urlparse_raises(url) THEN FALSE
    ELSE LET domain == Lower(urlparse(url).netloc)
         IN  \E shortener \in URL_SHORTENERS : Contains(domain, shortener)

has_suspicious_tld(url) ==
    IF urlparse_raises(url) THEN FALSE
    ELSE LET domain == Lower(urlparse(url).netloc)
         IN  \E tld \in SUSPICIOUS_TLDS : EndsWith(domain, tld)

\* Strings of the model are ASCII; three characters stand for non-ASCII ones:
\* "~" for U+0430 CYRILLIC SMALL LETTER A, "|" for U+03B1 GREEK SMALL LETTER
\* ALPHA and "^" for U+FF45 FULLWIDTH LATIN SMALL LETTER E.  The block of a
\* character is the first word of its Unicode name.
NonAsciiBlock == ("~" :> "CYRILLIC") @@ ("|" :> "GREEK") @@ ("^" :> "FULLWIDTH")

\* unicodedata.normalize('NFKC', domain): the fullwidth letter becomes "e",
\* the other characters of the model stay as they are
RECURSIVE NFKC(_)
NFKC(s) ==
    IF Occurrences(s, "^") = {} THEN s
    ELSE SubSeq(s, 1, FirstOf(Occurrences(s, "^"), 0) - 1) \o "e"
            \o NFKC(SubSeq(s, FirstOf(Occurrences(s, "^"), 0) + 1, Len(s)))

\* the blocks of the characters of the normalised host
ScriptsOf(norm) ==
    {IF At(norm, i) \in DOMAIN NonAsciiBlock THEN NonAsciiBlock[At(norm, i)] ELSE "ASCII" :
        i \in 1..Len(norm)}

\* the test on the host as written, without normalising it first
HomographDomainUnnormalised(domain) ==
    IF domain = "" THEN FALSE
    ELSE IF StartsAt(domain, 1, "xn--") \/ Contains(domain, ".xn--") THEN TRUE
    ELSE IF \A i \in 1..Len(domain) : At(domain, i) \notin DOMAIN NonAsciiBlock THEN FALSE
    ELSE Cardinality(ScriptsOf(domain)) > 1

\* the test on the host
HomographDomain(domain) ==
    IF domain = "" THEN FALSE
    ELSE IF StartsAt(domain, 1, "xn--") \/ Contains(domain, ".xn--") THEN TRUE
    ELSE IF \A i \in 1..Len(NFKC(domain)) : At(NFKC(domain), i) \notin DOMAIN NonAsciiBlock
         THEN FALSE
    ELSE Cardinality(ScriptsOf(NFKC(domain))) > 1

check_homograph_attack(url) ==
    IF urlparse_raises(url) THEN FALSE
    ELSE HomographDomain(hostname_of(url))

\* What the network does to a HEAD request of the shortener resolver:
\* the requests package may be missing, the request may fail, or it ends at
\* a final URL ("" when the response carries none).
ResolverOutcomes ==
    {[mode |-> "unavailable", final |-> ""], [mode |-> "fails", final |-> ""],
     [mode |-> "ok", final |-> ""], [mode |-> "ok", final |-> "http://xn--a.tk/login"],
     [mode |-> "ok", final |-> "https://example.com"]}

\* url_filter.py resolves over the network; detector.py returns its input
resolve_shortener(impl, url, net) ==
    IF impl = "detector" THEN url
    ELSE IF net.mode = "unavailable" THEN url
    ELSE IF net.mode = "fails" THEN url
    ELSE IF net.final # "" THEN net.final ELSE url

has_excessive_subdomains(url) ==
    IF urlparse_raises(url) THEN FALSE
    ELSE StrCount(urlparse(url).netloc, ".") > 3

SuspiciousPathPatterns ==
    {"login", "signin", "verify", "account", "update", "confirm", "secure", "banking",
     "paypal", "ebay", "amazon", "suspended", "locked", "unusual"}

\* path + query, lower-cased
FullPath(parsed) == Lower(parsed.path) \o Lower(parsed.query)

check_suspicious_path(url) ==
    IF urlparse_raises(url) THEN FALSE
    ELSE \E pattern \in SuspiciousPathPatterns : Contains(FullPath(urlparse(url)), pattern)

(***************************************************************************)
(* analyze_single_url and filter_urls (detector.py 356-417,                *)
(* url_filter.py 217-325).                                                 *)
(***************************************************************************)
\* the levels with their lower ends left out: above 50, above 30, above 10
RiskLevelAboveOnly(risk_score) ==
    IF risk_score > 50 THEN "HIGH"
    ELSE IF risk_score > 30 THEN "MEDIUM"
    ELSE IF risk_score > 10 THEN "LOW"
    ELSE "SAFE"

RiskLevelOf(risk_score) ==
    IF risk_score >= 50 THEN "HIGH"
    ELSE IF risk_score >= 30 THEN "MEDIUM"
    ELSE IF risk_score >= 10 THEN "LOW"
    ELSE "SAFE"

\* the checks in the order the code runs them: <<triggered, issue, increment>>
UrlChecks(impl, url, net) ==
    LET resolved == resolve_shortener(impl, url, net)
        url_to_check == IF resolved # "" /\ resolved # url THEN resolved ELSE url
    IN  << <<is_ip_address_url(impl, url), "Uses IP address instead of domain name", 30>>,
           <<is_url_shortener(url), "Uses URL shortening service", 25>>,
           <<has_suspicious_tld(url), "Uses suspicious top-level domain", 20>>,
           <<check_homograph_attack(url_to_check),
             "Contains lookalike characters (homograph attack)", 35>>,
           <<has_excessive_subdomains(url), "Has excessive number of subdomains", 15>>,
           <<check_suspicious_path(url), "Path contains suspicious keywords", 10>> >>

RECURSIVE SumIncrements(_)
SumIncrements(checks) ==
    IF checks = <<>> THEN 0
    ELSE (IF Head(checks)[1] THEN Head(checks)[3] ELSE 0) + SumIncrements(Tail(checks))

RECURSIVE IssuesOf(_)
IssuesOf(checks) ==
    IF checks = <<>> THEN <<>>
    ELSE (IF Head(checks)[1] THEN <<Head(checks)[2]>> ELSE <<>>) \o IssuesOf(Tail(checks))

Min(a, b) == IF a <= b THEN a ELSE b
Max(a, b) == IF a >= b THEN a ELSE b

\* the dict of analyze_single_url with the sum of the increments as it is
UrlReportWithoutCap(url, issues, risk_score) ==
    [url |-> url,
     risk_score |-> risk_score,
     risk_level |-> RiskLevelOf(risk_score),
     issues |-> issues]

\* the dict analyze_single_url returns, from the checks that triggered
UrlReport(url, issues, risk_score) ==
    [url |-> url,
     risk_score |-> Min(risk_score, 100),
     risk_level |-> RiskLevelOf(risk_score),
     issues |-> issues]

ReportOfChecks(url, checks) == UrlReport(url, IssuesOf(checks), SumIncrements(checks))

analyze_single_url(impl, url, net) == ReportOfChecks(url, UrlChecks(impl, url, net))

\* the URLs that analyze_single_url meets: those of the texts, and those a
\* shortener resolves to
KnownUrls ==
    UNION {extracted_urls[impl, text] : impl \in Impls, text \in Texts \cup LinkTexts}
        \cup {net.final : net \in {n \in ResolverOutcomes : n.final # ""}}

\* analyze_single_url computed once for every URL of the model
single_url_analysis ==
    [impl \in Impls, url \in KnownUrls, net \in ResolverOutcomes |->
        analyze_single_url(impl, url, net)]

RECURSIVE SumRisk(_)
SumRisk(analyses) ==
    IF analyses = <<>> THEN 0 ELSE Head(analyses).risk_score + SumRisk(Tail(analyses))

EmptyUrlAnalysis ==
    [urls_found |-> 0, urls |-> <<>>, high_risk_urls |-> <<>>, medium_risk_urls |-> <<>>,
     overall_risk |-> QInt(0), has_suspicious_urls |-> FALSE]

\* filter_urls that averages over max(len, 1) instead of returning early, and
\* takes "at least zero risky URLs" for suspicious
FilterUrlsWithoutEarlyReturn(impl, urls, net) ==
    LET url_analyses == [i \in 1..Len(urls) |-> single_url_analysis[impl, urls[i], net]]
        high_risk == SelectSeq(url_analyses, LAMBDA u : u.risk_level = "HIGH")
        medium_risk == SelectSeq(url_analyses, LAMBDA u : u.risk_level = "MEDIUM")
        overall_risk == Q(SumRisk(url_analyses), Max(Len(url_analyses), 1))
    IN  [urls_found |-> Len(urls),
         urls |-> url_analyses,
         high_risk_urls |-> high_risk,
         medium_risk_urls |-> medium_risk,
         overall_risk |-> QRound(overall_risk, 100),
         has_suspicious_urls |-> Len(high_risk) >= 0 \/ Len(medium_risk) >= 0]

\* filter_urls that takes only MEDIUM records for suspicious
UrlAnalysisMediumOnly(urls, url_analyses) ==
    LET high_risk == SelectSeq(url_analyses, LAMBDA u : u.risk_level = "HIGH")
        medium_risk == SelectSeq(url_analyses, LAMBDA u : u.risk_level = "MEDIUM")
    IN  [urls_found |-> Len(urls),
         urls |-> url_analyses,
         high_risk_urls |-> high_risk,
         medium_risk_urls |-> medium_risk,
         overall_risk |-> QRound(Q(SumRisk(url_analyses), Len(url_analyses)), 100),
         has_suspicious_urls |-> Len(medium_risk) > 0]

\* filter_urls whose mean is cut to a whole number
UrlAnalysisTruncated(urls, url_analyses) ==
    LET high_risk == SelectSeq(url_analyses, LAMBDA u : u.risk_level = "HIGH")
        medium_risk == SelectSeq(url_analyses, LAMBDA u : u.risk_level = "MEDIUM")
    IN  [urls_found |-> Len(urls),
         urls |-> url_analyses,
         high_risk_urls |-> high_risk,
         medium_risk_urls |-> medium_risk,
         overall_risk |-> QInt(SumRisk(url_analyses) \div Len(url_analyses)),
         has_suspicious_urls |-> Len(high_risk) > 0 \/ Len(medium_risk) > 0]

\* the dict filter_urls returns for a non-empty list of URLs and their
\* analyses
UrlAnalysis(urls, url_analyses) ==
    LET high_risk == SelectSeq(url_analyses, LAMBDA u : u.risk_level = "HIGH")
        medium_risk == SelectSeq(url_analyses, LAMBDA u : u.risk_level = "MEDIUM")
        overall_risk == Q(SumRisk(url_analyses), Len(url_analyses))
    IN  [urls_found |-> Len(urls),
         urls |-> url_analyses,
         high_risk_urls |-> high_risk,
         medium_risk_urls |-> medium_risk,
         overall_risk |-> QRound(overall_risk, 100),
         has_suspicious_urls |-> Len(high_risk) > 0 \/ Len(medium_risk) > 0]

\* urls is the list that extract_urls returned: an enumeration of the set
filter_urls_of(impl, urls, net) ==
    IF urls = <<>> THEN EmptyUrlAnalysis
    ELSE UrlAnalysis(urls, [i \in 1..Len(urls) |-> single_url_analysis[impl, urls[i], net]])

\* the results filter_urls(email_text) can return, one per enumeration order
filter_urls(impl, email_text, net) ==
    {filter_urls_of(impl, urls, net) : urls \in Enumerations(extracted_urls[impl, email_text])}

(***************************************************************************)
(* url_features_from_text (detector.py 438-489, url_filter.py 360-423):    *)
(* the 8 numbers appended to the TF-IDF vector of the stacking classifier. *)
(***************************************************************************)
RECURSIVE SumSeq(_)
SumSeq(seq) == IF seq = <<>> THEN 0 ELSE Head(seq) + SumSeq(Tail(seq))

BoolToInt(b) == IF b THEN 1 ELSE 0

\* the texts of the model hold no anchor markup, so the anchor scan
\* (re.findall of <a href=...>) returns no pair and anchor_mismatch stays 0
url_features_of(impl, urls, net) ==
    IF urls = <<>> THEN [i \in 1..8 |-> QInt(0)]
    ELSE LET n == Len(urls)
             final_url(i) == resolve_shortener(impl, urls[i], net)
             shortener_flag == BoolToInt(\E i \in 1..n : is_url_shortener(urls[i]))
             ip_flag == BoolToInt(\E i \in 1..n : is_ip_address_url(impl, urls[i]))
             suspicious_tld_count == Cardinality({i \in 1..n : has_suspicious_tld(final_url(i))})
             homograph_count == Cardinality({i \in 1..n : check_homograph_attack(final_url(i))})
             subdomain_counts ==
                 [i \in 1..n |-> IF urlparse_raises(urls[i]) THEN 0
                                 ELSE StrCount(hostname_of(urls[i]), ".")]
             path_suspicious_count == Cardinality({i \in 1..n : check_suspicious_path(urls[i])})
             anchor_mismatch == 0
         IN  <<QInt(shortener_flag), QInt(ip_flag), QInt(suspicious_tld_count),
               QInt(homograph_count), Q(SumSeq(subdomain_counts), Max(1, n)),
               QInt(path_suspicious_count), QInt(n), QInt(anchor_mismatch)>>

(***************************************************************************)
(* Keyword / heuristic scorer (detector.py 24-123, predictor.py 10-129).   *)
(***************************************************************************)
\* predictor.py lists 'approve' twice
ACADEMIC_KEYWORDS(impl) ==
    <<"scholarship", "exam", "fee", "admission", "certificate", "deadline",
      "registration", "result", "verification", "urgent", "update", "verify",
      "account", "credentials", "password", "confirm", "approve">>
        \o (IF impl = "core" THEN <<"approve">> ELSE <<>>)
        \o <<"claim", "grant", "disbursement", "internship", "alert", "suspend">>

\* the regex of each category as its alternatives a, a.*b or a\s+b
PHISHING_INDICATORS ==
    << [name |-> "verify_account", alts |->
          {<<"verify", ".*", "account">>, <<"confirm", ".*", "account">>,
           <<"validate", ".*", "account">>}],
       [name |-> "urgent_action", alts |->
          {<<"urgent", "", "">>, <<"immediately", "", "">>, <<"today", "", "">>,
           <<"right now", "", "">>, <<"asap", "", "">>, <<"act now", "", "">>}],
       [name |-> "suspicious_links", alts |->
          {<<"click", "\\s+", "here">>, <<"click", ".*", "link">>,
           <<"click", ".*", "below">>, <<"confirm", ".*", "link">>}],
       [name |-> "credential_request", alts |->
          {<<"provide", ".*", "password">>, <<"enter", ".*", "credentials">>,
           <<"confirm", ".*", "identity">>, <<"banking details", "", "">>}],
       [name |-> "threat_language", alts |->
          {<<"expire", "", "">>, <<"suspend", "", "">>, <<"deactivate", "", "">>,
           <<"delete", "", "">>, <<"locked", "", "">>, <<"compromised", "", "">>}],
       [name |-> "too_good", alts |->
          {<<"congratulations", "", "">>, <<"approved", "", "">>, <<"eligible", "", "">>,
           <<"won", "", "">>, <<"refund", "", "">>, <<"reward", "", "">>}] >>

urgency_keywords ==
    << <<"urgent", 10>>, <<"immediate", 9>>, <<"asap", 9>>, <<"deadline", 8>>,
       <<"expires", 8>>, <<"act now", 9>>, <<"limited time", 8>>, <<"hurry", 8>>,
       <<"immediately", 9>>, <<"today", 7>>, <<"now", 7>>, <<"must", 6>>,
       <<"right now", 10>>, <<"final notice", 10>>, <<"last chance", 9>> >>

calculate_urgency_score(text) ==
    LET text_lower == Lower(text)
        count == [k \in DOMAIN urgency_keywords |-> StrCount(text_lower, urgency_keywords[k][1])]
        urgency_score == SumSeq([k \in DOMAIN urgency_keywords |-> count[k] * urgency_keywords[k][2]])
        keyword_count == SumSeq(count)
    IN  QMin(Q(urgency_score, Max(keyword_count, 1)), QInt(10))

extract_academic_keywords(impl, text) ==
    LET text_lower == Lower(text)
    IN  SelectSeq(ACADEMIC_KEYWORDS(impl), LAMBDA kw : WordOccurrences(text_lower, kw) # {})

\* re.search of one alternative
AltFound(s, alt) ==
    IF alt[2] = "" THEN Contains(s, alt[1])
    ELSE \E i \in Occurrences(s, alt[1]) : \E j \in Occurrences(s, alt[3]) :
            /\ j >= i + Len(alt[1])
            /\ IF alt[2] = ".*"
               THEN \A k \in (i + Len(alt[1]))..(j - 1) : At(s, k) # "\n"
               ELSE /\ j > i + Len(alt[1])
                    /\ \A k \in (i + Len(alt[1]))..(j - 1) : At(s, k) \in Whitespace

calculate_phishing_indicators_score(text) ==
    LET text_lower == Lower(text)
        indicator_count ==
            Cardinality({k \in DOMAIN PHISHING_INDICATORS :
                            \E alt \in PHISHING_INDICATORS[k].alts : AltFound(text_lower, alt)})
        max_indicators == Len(PHISHING_INDICATORS)
    IN  QMul(Q(indicator_count, max_indicators), QInt(10))

(***************************************************************************)
(* Emotional tone analyzer (app/utils/emotional_analyzer.py).              *)
(*                                                                         *)
(* Every pattern of the source is \b( alternatives )\b; it is given here   *)
(* as the set of lower-case phrases it matches, a space standing for \s+   *)
(* (words of a text are separated by single spaces).  The alternatives     *)
(* with \d+ (within N hours, $N) are left out: no text of the model has    *)
(* the words they need.  No two matches of one pattern overlap in a text   *)
(* of the model, so that the number of re.findall results of a pattern is  *)
(* the number of positions where it matches.                               *)
(***************************************************************************)
EMOTIONAL_PATTERNS == <<
    [emotion |-> "urgency", weight |-> Q(120, 100), patterns |-> <<
          [intensity |-> 8, phrases |->
            {"urgent", "immediately", "asap", "right now", "act now", "hurry"}],
          [intensity |-> 7, phrases |->
            {"time sensitive", "deadline", "expire", "expires", "expiring",
             "limited time"}],
          [intensity |-> 6, phrases |->
            {"today", "tonight"}],
          [intensity |-> 5, phrases |->
            {"quick", "quickly", "fast", "instant", "instantly", "prompt",
             "promptly"}],
          [intensity |-> 7, phrases |->
            {"dont wait", "don't wait", "cant wait", "can't wait",
             "wont last", "won't last"}],
          [intensity |-> 9, phrases |->
            {"final notice", "final warning", "final chance",
             "final reminder"}] >>],
    [emotion |-> "fear", weight |-> Q(130, 100), patterns |-> <<
          [intensity |-> 9, phrases |->
            {"suspend", "suspended", "deactivate", "deactivated", "locked",
             "blocked", "disabled"}],
          [intensity |-> 8, phrases |->
            {"unauthorized activity", "unauthorized access",
             "unauthorized login", "unauthorized transaction",
             "unusual activity", "unusual access", "unusual login",
             "unusual transaction", "suspicious activity",
             "suspicious access", "suspicious login",
             "suspicious transaction", "illegal activity", "illegal access",
             "illegal login", "illegal transaction"}],
          [intensity |-> 8, phrases |->
            {"security alert", "security breach", "security issue",
             "security warning", "security threat"}],
          [intensity |-> 9, phrases |->
            {"compromise", "compromised", "hack", "hacked", "vulnerable",
             "vulnerability"}],
          [intensity |-> 8, phrases |->
            {"lose access", "lose account", "lose eligibility", "lose fund",
             "lose funds", "lost access", "lost account", "lost eligibility",
             "lost fund", "lost funds", "forfeit access", "forfeit account",
             "forfeit eligibility", "forfeit fund", "forfeit funds",
             "cancel access", "cancel account", "cancel eligibility",
             "cancel fund", "cancel funds", "cancelled access",
             "cancelled account", "cancelled eligibility", "cancelled fund",
             "cancelled funds"}],
          [intensity |-> 7, phrases |->
            {"consequence", "penalty", "fine", "legal action",
             "law enforcement"}],
          [intensity |-> 6, phrases |->
            {"danger", "risk", "threat", "warning"}] >>],
    [emotion |-> "greed", weight |-> Q(110, 100), patterns |-> <<
          [intensity |-> 7, phrases |->
            {"won", "winner", "winning", "prize", "reward", "bonus"}],
          [intensity |-> 5, phrases |->
            {"free", "complimentary", "no cost", "zero cost"}],
          [intensity |-> 4, phrases |->
            {"discount", "save", "savings", "deal", "offer"}],
          [intensity |-> 6, phrases |->
            {"cash", "money", "refund", "reimbursement"}],
          [intensity |-> 6, phrases |->
            {"grant", "scholarship", "award", "approved"}],
          [intensity |-> 7, phrases |->
            {"claim your", "claim now", "redeem your", "redeem now",
             "collect your", "collect now"}],
          [intensity |-> 5, phrases |->
            {"limited offer", "exclusive", "special offer"}],
          [intensity |-> 8, phrases |->
            {"congratulation", "congratulations", "youve been selected",
             "you've been selected"}] >>],
    [emotion |-> "anxiety", weight |-> Q(115, 100), patterns |-> <<
          [intensity |-> 8, phrases |->
            {"verify your", "verify account", "verify identity",
             "verify credentials", "confirm your", "confirm account",
             "confirm identity", "confirm credentials", "validate your",
             "validate account", "validate identity", "validate credentials",
             "authenticate your", "authenticate account",
             "authenticate identity", "authenticate credentials"}],
          [intensity |-> 7, phrases |->
            {"update your", "update password", "update details",
             "update information", "provide your", "provide password",
             "provide details", "provide information", "enter your",
             "enter password", "enter details", "enter information",
             "submit your", "submit password", "submit details",
             "submit information"}],
          [intensity |-> 8, phrases |->
            {"action required", "immediate action", "must act"}],
          [intensity |-> 6, phrases |->
            {"error", "problem", "issue", "failure"}],
          [intensity |-> 5, phrases |->
            {"unable to", "failed to", "could not"}],
          [intensity |-> 7, phrases |->
            {"attention required", "require your attention",
             "requires your attention"}],
          [intensity |-> 4, phrases |->
            {"review your", "review the", "check your", "check the"}] >>],
    [emotion |-> "deference", weight |-> Q(90, 100), patterns |-> <<
          [intensity |-> 6, phrases |->
            {"dear valued", "dear esteemed", "dear honored",
             "dear distinguished"}],
          [intensity |-> 5, phrases |->
            {"official", "authorized", "legitimate", "verified"}],
          [intensity |-> 4, phrases |->
            {"department", "office", "division", "bureau", "administration"}],
          [intensity |-> 5, phrases |->
            {"notice from", "notification from", "alert from"}],
          [intensity |-> 4, phrases |->
            {"on behalf of", "representing"}],
          [intensity |-> 5, phrases |->
            {"compliance", "regulation", "policy", "mandate"}] >>],
    [emotion |-> "manipulation", weight |-> Q(110, 100), patterns |-> <<
          [intensity |-> 7, phrases |->
            {"click here", "click below", "click link", "click now"}],
          [intensity |-> 7, phrases |->
            {"do not ignore", "do not delay", "do not miss",
             "do not disregard", "dont ignore", "dont delay", "dont miss",
             "dont disregard", "don't ignore", "don't delay", "don't miss",
             "don't disregard"}],
          [intensity |-> 6, phrases |->
            {"only you", "youve been chosen", "you've been chosen"}],
          [intensity |-> 5, phrases |->
            {"confidential", "secret", "private", "sensitive"}],
          [intensity |-> 4, phrases |->
            {"trust", "trusted", "secure", "safe", "protected"}],
          [intensity |-> 5, phrases |->
            {"guarantee", "guaranteed", "certain", "sure", "promise"}] >>] >>

POSITIVE_WORDS ==
    {"congratulations", "approved", "success", "winner", "selected", "eligible",
     "great", "excellent", "wonderful", "fantastic", "amazing", "perfect",
     "benefit", "opportunity", "advantage", "gain", "profit", "reward"}

NEGATIVE_WORDS ==
    {"suspend", "cancel", "terminate", "denied", "rejected", "failed", "error",
     "problem", "issue", "warning", "alert", "danger", "risk", "threat",
     "unauthorized", "illegal", "fraud", "scam", "suspicious", "unusual"}

Emotions == <<"urgency", "fear", "greed", "anxiety", "deference", "manipulation">>

\* the positions where a word starts
WordStarts(s) == {i \in 1..Len(s) : BoundaryBefore(s, i)}

\* number of positions of starts where \b(phrases)\b matches
PhraseCount(s, starts, phrases) ==
    Cardinality({i \in starts : \E ph \in phrases :
                    StartsAt(s, i, ph) /\ BoundaryAfter(s, i + Len(ph) - 1)})

_get_empty_analysis ==
    [emotional_scores |->
        [e \in {Emotions[k] : k \in DOMAIN Emotions} |->
            [score |-> QInt(0), count |-> 0, raw_score |-> QInt(0), detected |-> <<>>]],
     hidden_meaning_score |-> QInt(0),
     sentiment |-> [polarity |-> QInt(0), label |-> "neutral",
                    positive_count |-> 0, negative_count |-> 0],
     emotional_conflict |-> [has_conflict |-> FALSE,
                             description |-> "No emotional markers detected"],
     manipulation_risk |-> [level |-> "LOW", score |-> 0,
                            description |-> "No manipulation detected"],
     total_emotional_markers |-> 0,
     composite_intensity |-> QInt(0),
     risk_factors |-> <<>>]

\* the dict calculate_sentiment returns, from the two counts and the
\* polarity they give
SentimentDict(positive_count, negative_count, total_sentiment_words, polarity) ==
    [polarity |-> IF QLt(polarity, QInt(0))
                  THEN QMul(QInt(-1), QRound(QMul(QInt(-1), polarity), 1000))
                  ELSE QRound(polarity, 1000),
     label |-> IF total_sentiment_words = 0 THEN "neutral"
               ELSE IF QGt(polarity, Q(3, 10)) THEN "positive"
               ELSE IF QLt(polarity, Q(-3, 10)) THEN "negative"
               ELSE "neutral",
     positive_count |-> positive_count,
     negative_count |-> negative_count,
     mixed_sentiment |-> positive_count > 0 /\ negative_count > 0,
     sentiment_words |-> total_sentiment_words]

SentimentOfCounts(positive_count, negative_count) ==
    SentimentDict(positive_count, negative_count, positive_count + negative_count,
                  IF positive_count + negative_count = 0 THEN QInt(0)
                  ELSE Q(positive_count - negative_count, positive_count + negative_count))

SentimentAt(text, starts) ==
    SentimentOfCounts(PhraseCount(text, starts, POSITIVE_WORDS),
                      PhraseCount(text, starts, NEGATIVE_WORDS))

calculate_sentiment(text) == SentimentAt(Lower(text), WordStarts(Lower(text)))

\* sequential evaluation of  es[e1]['score'] > n1 and es[e2]['score'] > n2 ...
\* as Python does it: a missing key raises KeyError ("KeyError"), a false
\* conjunct stops the evaluation ("False"), otherwise "True"
RECURSIVE AndThen(_, _)
AndThen(emotional_scores, conds) ==
    IF conds = <<>> THEN "True"
    ELSE IF Head(conds)[1] \notin DOMAIN emotional_scores THEN "KeyError"
    ELSE IF ~QGt(emotional_scores[Head(conds)[1]].score, QInt(Head(conds)[2])) THEN "False"
    ELSE AndThen(emotional_scores, Tail(conds))

\* calculate_hidden_meaning_score without the final min(..., 100)
HiddenMeaningWithoutCap(emotional_scores, sentiment) ==
    LET present == DOMAIN emotional_scores
        presentSeq == SelectSeq(Emotions, LAMBDA e : e \in present)
        emotion_sum == QSum([k \in DOMAIN presentSeq |-> emotional_scores[presentSeq[k]].score])
        emotion_avg == IF present # {} THEN QDivInt(emotion_sum, Cardinality(present))
                       ELSE QInt(0)
        critical_emotions == SelectSeq(<<"urgency", "fear", "anxiety">>, LAMBDA e : e \in present)
        critical_score ==
            QDivInt(QSum([k \in DOMAIN critical_emotions |->
                            QMul(emotional_scores[critical_emotions[k]].score, Q(15, 10))]), 3)
        penalty1 == IF sentiment.mixed_sentiment THEN 15 ELSE 0
        sentiment_penalty ==
            IF sentiment.label = "positive" /\ sentiment.negative_count > 2
            THEN penalty1 + 10 ELSE penalty1
        combo == AndThen(emotional_scores, << <<"urgency", 5>>, <<"fear", 5>>, <<"anxiety", 5>> >>)
        combo_bonus == IF combo = "True" THEN 20 ELSE 0
        base_score == QDivInt(QAdd(QMul(emotion_avg, QInt(3)), QMul(critical_score, QInt(4))), 7)
        final_score == QAdd(QMul(base_score, QInt(10)), QInt(sentiment_penalty + combo_bonus))
    IN  IF combo = "KeyError" THEN [raised |-> TRUE, value |-> QInt(0)]
        ELSE [raised |-> FALSE, value |-> QRound(final_score, 100)]

\* [raised |-> TRUE] stands for the KeyError the code raises
calculate_hidden_meaning_score(emotional_scores, sentiment) ==
    LET present == DOMAIN emotional_scores
        presentSeq == SelectSeq(Emotions, LAMBDA e : e \in present)
        emotion_sum == QSum([k \in DOMAIN presentSeq |-> emotional_scores[presentSeq[k]].score])
        emotion_avg == IF present # {} THEN QDivInt(emotion_sum, Cardinality(present))
                       ELSE QInt(0)
        critical_emotions == SelectSeq(<<"urgency", "fear", "anxiety">>, LAMBDA e : e \in present)
        critical_score ==
            QDivInt(QSum([k \in DOMAIN critical_emotions |->
                            QMul(emotional_scores[critical_emotions[k]].score, Q(15, 10))]), 3)
        penalty1 == IF sentiment.mixed_sentiment THEN 15 ELSE 0
        sentiment_penalty ==
            IF sentiment.label = "positive" /\ sentiment.negative_count > 2
            THEN penalty1 + 10 ELSE penalty1
        combo == AndThen(emotional_scores, << <<"urgency", 5>>, <<"fear", 5>>, <<"anxiety", 5>> >>)
        combo_bonus == IF combo = "True" THEN 20 ELSE 0
        base_score == QDivInt(QAdd(QMul(emotion_avg, QInt(3)), QMul(critical_score, QInt(4))), 7)
        final_score == QMin(QAdd(QMul(base_score, QInt(10)), QInt(sentiment_penalty + combo_bonus)),
                            QInt(100))
    IN  IF combo = "KeyError" THEN [raised |-> TRUE, value |-> QInt(0)]
        ELSE [raised |-> FALSE, value |-> QRound(final_score, 100)]

detect_emotional_conflict(emotional_scores, sentiment) ==
    LET positive == sentiment.label = "positive"
        c1 == IF positive THEN AndThen(emotional_scores, << <<"fear", 4>> >>) ELSE "False"
        c2 == IF positive THEN AndThen(emotional_scores, << <<"urgency", 6>> >>) ELSE "False"
        c3 == AndThen(emotional_scores, << <<"greed", 5>>, <<"fear", 5>> >>)
        c4 == AndThen(emotional_scores, << <<"deference", 4>>, <<"urgency", 6>> >>)
        named == << <<c1, "positive_with_fear">>, <<c2, "positive_with_urgency">>,
                    <<c3, "greed_fear_conflict">>, <<c4, "deference_urgency_conflict">> >>
        hits == SelectSeq(named, LAMBDA c : c[1] = "True")
        conflicts == [k \in DOMAIN hits |-> hits[k][2]]
        conflict_score == Len(conflicts) * 15
    IN  IF \E k \in DOMAIN named : named[k][1] = "KeyError"
        THEN [raised |-> TRUE]
        ELSE [raised |-> FALSE,
              value |-> [has_conflict |-> Len(conflicts) > 0,
                         conflicts |-> conflicts,
                         conflict_score |-> Min(conflict_score, 50)]]

calculate_manipulation_risk(emotional_scores, sentiment) ==
    LET high_emotions ==
            Cardinality({e \in DOMAIN emotional_scores :
                            QGt(emotional_scores[e].score, QInt(6))})
        manipulation_score ==
            IF "manipulation" \in DOMAIN emotional_scores
            THEN emotional_scores["manipulation"].score ELSE QInt(0)
        tier == IF high_emotions >= 3 \/ QGt(manipulation_score, QInt(7)) THEN <<"critical", 90>>
                ELSE IF high_emotions >= 2 \/ QGt(manipulation_score, QInt(5)) THEN <<"high", 70>>
                ELSE IF high_emotions >= 1 \/ QGt(manipulation_score, QInt(3)) THEN <<"medium", 50>>
                ELSE <<"low", 20>>
    IN  [level |-> tier[1],
         score |-> tier[2],
         high_intensity_emotions |-> high_emotions,
         manipulation_detected |-> QGt(manipulation_score, QInt(4))]

\* the factor strings as tags: <<"High", emotion>>, <<"Moderate", emotion>>,
\* <<"Mixed">>, <<"SuspiciousPositive">>, in the order the code appends them
generate_risk_factors(emotional_scores, sentiment) ==
    LET presentSeq == SelectSeq(Emotions, LAMBDA e : e \in DOMAIN emotional_scores)
        graded == SelectSeq(presentSeq, LAMBDA e : QGt(emotional_scores[e].score, QInt(4)))
        perEmotion == [k \in DOMAIN graded |->
                        IF QGt(emotional_scores[graded[k]].score, QInt(6))
                        THEN <<"High", graded[k]>> ELSE <<"Moderate", graded[k]>>]
        mixed == IF sentiment.mixed_sentiment THEN << <<"Mixed">> >> ELSE <<>>
        framing == IF sentiment.label = "positive" /\ sentiment.negative_count > 2
                   THEN << <<"SuspiciousPositive">> >> ELSE <<>>
    IN  perEmotion \o mixed \o framing

\* the points of the analyzer where a failure can be injected
\* <<"pattern", emotion, k>> (the k-th regex of a category), <<"category", emotion>>
\* and <<"step", name>> for the steps below
AnalyzerSteps == {"loop", "sentiment", "hidden", "conflict", "manipulation", "risk_factors"}

RECURSIVE Copies(_, _)
Copies(x, n) == IF n = 0 THEN <<>> ELSE <<x>> \o Copies(x, n - 1)

RECURSIVE Flatten(_)
Flatten(seqs) == IF seqs = <<>> THEN <<>> ELSE Head(seqs) \o Flatten(Tail(seqs))

\* len(re.findall(pattern, text_lower)) for the patterns p, p+1, ... of a
\* category; a pattern in faults raises inside its own try and counts nothing
RECURSIVE FindAll(_, _, _, _, _)
FindAll(text_lower, starts, config, p, faults) ==
    IF p > Len(config.patterns) THEN <<>>
    ELSE <<IF <<"pattern", config.emotion, p>> \in faults THEN 0
           ELSE PhraseCount(text_lower, starts, config.patterns[p].phrases)>>
            \o FindAll(text_lower, starts, config, p + 1, faults)

\* one iteration of the loop over EMOTIONAL_PATTERNS for category k
\* the entry of emotional_scores for a category, from its sums
CategoryDict(score, count, matches) ==
    [score |-> QRound(IF QGt(score, QInt(0)) THEN QMin(QDivInt(score, 10), QInt(10))
                      ELSE QInt(0), 100),
     count |-> count,
     raw_score |-> QRound(score, 100),
     detected |-> SubSeq(matches, 1, Min(Len(matches), 5)),
     weighted_total |-> score]

\* found[p] is the number of matches of the p-th pattern of the category
CategoryOfFound(config, found) ==
    CategoryDict(QSum([p \in DOMAIN config.patterns |->
                        QMul(QInt(config.patterns[p].intensity * found[p]), config.weight)]),
                 SumSeq(found),
                 Flatten([p \in DOMAIN config.patterns |->
                            Copies([intensity |-> config.patterns[p].intensity,
                                    pattern_type |-> config.emotion], Min(found[p], 3))]))

CategoryOfConfig(text_lower, starts, config, faults) ==
    CategoryOfFound(config, FindAll(text_lower, starts, config, 1, faults))

CategoryScore(text_lower, starts, k, faults) ==
    CategoryOfConfig(text_lower, starts, EMOTIONAL_PATTERNS[k], faults)

\* the loop over EMOTIONAL_PATTERNS, for the categories that do not fail
RECURSIVE CategoryScores(_, _, _, _)
CategoryScores(text_lower, starts, kept, faults) ==
    IF kept = <<>> THEN <<>>
    ELSE <<CategoryScore(text_lower, starts, Head(kept), faults)>>
            \o CategoryScores(text_lower, starts, Tail(kept), faults)

\* the dict emotional_scores: emotion -> score, count, raw_score, detected
RECURSIVE ScoresByEmotion(_, _)
ScoresByEmotion(kept, perCategory) ==
    IF kept = <<>> THEN <<>>
    ELSE (EMOTIONAL_PATTERNS[Head(kept)].emotion :>
              [score |-> Head(perCategory).score, count |-> Head(perCategory).count,
               raw_score |-> Head(perCategory).raw_score,
               detected |-> Head(perCategory).detected])
            @@ ScoresByEmotion(Tail(kept), Tail(perCategory))

\* the result of analyze_emotional_tone, from the scores of the categories
\* and the sentiment
ToneDict(faults, emotional_scores, sentiment, total_matches, total_intensity) ==
    LET hidden == calculate_hidden_meaning_score(emotional_scores, sentiment)
        conflict == detect_emotional_conflict(emotional_scores, sentiment)
    IN  [emotional_scores |-> emotional_scores,
         hidden_meaning_score |->
            IF <<"step", "hidden">> \in faults \/ hidden.raised THEN QInt(0) ELSE hidden.value,
         sentiment |-> sentiment,
         emotional_conflict |->
            IF <<"step", "conflict">> \in faults \/ conflict.raised
            THEN [has_conflict |-> FALSE, description |-> "Unable to analyze conflict"]
            ELSE conflict.value,
         manipulation_risk |->
            IF <<"step", "manipulation">> \in faults
            THEN [level |-> "UNKNOWN", score |-> 0, description |-> "Unable to calculate risk"]
            ELSE calculate_manipulation_risk(emotional_scores, sentiment),
         total_emotional_markers |-> total_matches,
         composite_intensity |->
            IF total_matches > 0 THEN QRound(QDivInt(total_intensity, Max(total_matches, 1)), 100)
            ELSE QInt(0),
         risk_factors |->
            IF <<"step", "risk_factors">> \in faults THEN <<>>
            ELSE generate_risk_factors(emotional_scores, sentiment)]

\* kept are the categories whose iteration did not fail, perCategory their
\* entries
ToneOfCategories(text_lower, starts, faults, kept, perCategory) ==
    ToneDict(faults,
             ScoresByEmotion(kept, perCategory),
             IF <<"step", "sentiment">> \in faults
             THEN [polarity |-> QInt(0), label |-> "neutral", positive_count |-> 0,
                   negative_count |-> 0, mixed_sentiment |-> FALSE, sentiment_words |-> 0]
             ELSE calculate_sentiment(text_lower),
             SumSeq([j \in DOMAIN perCategory |-> perCategory[j].count]),
             QSum([j \in DOMAIN perCategory |-> perCategory[j].weighted_total]))

ToneOfKept(text_lower, starts, faults, kept) ==
    ToneOfCategories(text_lower, starts, faults, kept,
                     CategoryScores(text_lower, starts, kept, faults))

ToneOfLower(text_lower, starts, faults) ==
    ToneOfKept(text_lower, starts, faults,
               SelectSeq([k \in DOMAIN EMOTIONAL_PATTERNS |-> k],
                         LAMBDA k : <<"category", EMOTIONAL_PATTERNS[k].emotion>> \notin faults))

analyze_emotional_tone(text, faults) ==
    IF text = "" \/ <<"step", "loop">> \in faults THEN _get_empty_analysis
    ELSE ToneOfLower(Lower(text), WordStarts(Lower(text)), faults)

(***************************************************************************)
(* Classifier adapter and Stage 1 (predict_phishing of app/detector.py and *)
(* of app/core/predictor.py).                                              *)
(*                                                                         *)
(* A bundle is None, a ModelBundle that found no artifact ("empty"), the   *)
(* legacy bundle (vectorizer, lr, nb; svm.pkl absent) or a bundle around   *)
(* the saved pipeline dict (vectorizer, stacking).  What the loaded models *)
(* answer for a text is an input: clf gives the probability of each model, *)
(* faults the calls that raise.                                            *)
(***************************************************************************)
BundleKinds == {"None", "empty", "legacy", "pipeline"}

Grid == {Q(k, EGrid) : k \in 0..EGrid}

\* the answers of the models a bundle holds (0 for a model it does not hold)
ClassifierAnswers(bundle) ==
    [lr : IF bundle = "legacy" THEN Grid ELSE {QInt(0)},
     nb : IF bundle = "legacy" THEN Grid ELSE {QInt(0)},
     stacking : IF bundle = "pipeline" THEN Grid ELSE {QInt(0)}]

HeaderMaps ==
    { <<>>,
      "Authentication-Results" :> "SPF=Pass dkim=pass",
      "Authentication-Results:" :> "spf=pass dkim=pass dmarc=pass" }

\* the try block around bundle.pipeline (detector.py 133-159)
PipelineScores(bundle, clf, faults) ==
    IF bundle = "pipeline" /\ <<"model", "vectorizer">> \notin faults
                           /\ <<"model", "stacking">> \notin faults
    THEN [model_probs |-> "pipeline" :> clf.stacking, model_scores |-> <<clf.stacking>>,
          ensemble_score |-> clf.stacking]
    ELSE [model_probs |-> <<>>, model_scores |-> <<>>, ensemble_score |-> QInt(0)]

\* the fallback that adds the probabilities of the models up instead of
\* taking their mean
LegacyScoresSummed(bundle, clf, faults, first) ==
    IF ~(first.ensemble_score = QInt(0) /\ bundle \in {"legacy", "pipeline"})
    THEN [raised |-> FALSE, model_probs |-> first.model_probs,
          ensemble_score |-> first.ensemble_score]
    ELSE IF <<"model", "vectorizer">> \in faults THEN [raised |-> TRUE]
    ELSE [raised |-> FALSE,
          model_probs |-> IF bundle = "legacy" THEN ("logistic" :> clf.lr) @@ ("nb" :> clf.nb)
                          ELSE <<>>,
          ensemble_score |-> IF bundle = "legacy" THEN QAdd(clf.lr, clf.nb)
                             ELSE first.ensemble_score]

\* the fallback on the separate artifacts (detector.py 161-186); bundle.lr,
\* bundle.nb and bundle.svm do not exist on a pipeline bundle and are None
\* or loaded on a legacy one; the transform call stands outside every try
LegacyScores(bundle, clf, faults, first) ==
    IF ~(first.ensemble_score = QInt(0) /\ bundle \in {"legacy", "pipeline"})
    THEN [raised |-> FALSE, model_probs |-> first.model_probs,
          ensemble_score |-> first.ensemble_score]
    ELSE IF <<"model", "vectorizer">> \in faults THEN [raised |-> TRUE]
    ELSE
    LET lr_ok == bundle = "legacy" /\ <<"model", "lr">> \notin faults
        nb_ok == bundle = "legacy" /\ <<"model", "nb">> \notin faults
        probs1 == IF lr_ok THEN first.model_probs @@ ("logistic" :> clf.lr)
                  ELSE first.model_probs
        probs2 == IF nb_ok THEN probs1 @@ ("nb" :> clf.nb) ELSE probs1
        model_scores == first.model_scores \o (IF lr_ok THEN <<clf.lr>> ELSE <<>>)
                                           \o (IF nb_ok THEN <<clf.nb>> ELSE <<>>)
    IN  [raised |-> FALSE, model_probs |-> probs2,
         ensemble_score |-> IF model_scores # <<>>
                            THEN QDivInt(QSum(model_scores), Len(model_scores))
                            ELSE first.ensemble_score]

header_features(hdrs) ==
    IF DOMAIN hdrs = {} THEN <<0, 0, 0>>
    ELSE
    LET first == IF "Authentication-Results" \in DOMAIN hdrs
                 THEN hdrs["Authentication-Results"] ELSE ""
        auth == IF first # "" THEN first
                ELSE IF "Authentication-Results:" \in DOMAIN hdrs
                     THEN hdrs["Authentication-Results:"] ELSE ""
        auth_low == Lower(auth)
    IN  <<BoolToInt(Contains(auth_low, "spf=pass")),
          BoolToInt(Contains(auth_low, "dkim=pass")),
          BoolToInt(Contains(auth_low, "dmarc=pass"))>>

\* a header risk that takes a message without headers for neutral
HeaderRiskNeutralWhenAbsent(hdrs) ==
    IF DOMAIN hdrs = {} THEN QInt(0)
    ELSE QAdd(QInt(1), QMul(QInt(-1), Q(SumSeq(header_features(hdrs)), 3)))

header_risk(hdrs) ==
    LET hdr_feats == header_features(hdrs)
    IN  QAdd(QInt(1), QMul(QInt(-1), Q(SumSeq(hdr_feats), Max(1, Len(hdr_feats)))))

\* header_risk computed once for every header map of the model
header_risks == [hdrs \in HeaderMaps |-> header_risk(hdrs)]

\* the two tests of the loop below, computed once for every URL of the model
url_flags ==
    [url \in KnownUrls |->
        [flagged |-> is_url_shortener(url) \/ has_suspicious_tld(url)
                        \/ is_ip_address_url("detector", url),
         suspicious_path |-> check_suspicious_path(url)]]

\* a loop that stops after the first URL of the list whatever it finds
UrlRiskOfFirstOnly(urls, url_risk) ==
    IF urls = <<>> THEN url_risk
    ELSE IF url_flags[Head(urls)].flagged THEN QInt(1)
    ELSE IF url_flags[Head(urls)].suspicious_path THEN QMax(url_risk, Q(7, 10))
    ELSE url_risk

\* the loop over the list of extracted URLs (detector.py 196-205), from
\* the value url_risk reached so far
RECURSIVE url_risk_loop(_, _)
url_risk_loop(urls, url_risk) ==
    IF urls = <<>> THEN url_risk
    ELSE LET url == Head(urls) IN
         IF url_flags[url].flagged THEN QInt(1)
         ELSE url_risk_loop(Tail(urls),
                            IF url_flags[url].suspicious_path THEN QMax(url_risk, Q(7, 10))
                            ELSE url_risk)

AnalyzerFaults(faults) == {f \in faults : f[1] \in {"pattern", "category", "step"}}

\* the signals computed from the words of the text (detector.py 188-193,
\* predictor.py 215-218): none of the calls stands in a try block, so one
\* that raises makes predict_phishing raise
LeafSignals(impl, email_text, faults) ==
    IF \/ <<"leaf", "urgency">> \in faults
       \/ <<"leaf", "indicators">> \in faults
       \/ <<"leaf", "keywords">> \in faults
    THEN [raised |-> TRUE]
    ELSE IF impl = "detector"
    THEN [raised |-> FALSE,
          urgency |-> calculate_urgency_score(email_text),
          phishing_indicators |-> calculate_phishing_indicators_score(email_text),
          keywords |-> extract_academic_keywords(impl, email_text),
          emotional_analysis |-> analyze_emotional_tone(email_text, AnalyzerFaults(faults))]
    ELSE [raised |-> FALSE,
          urgency |-> calculate_urgency_score(email_text),
          phishing_indicators |-> calculate_phishing_indicators_score(email_text),
          keywords |-> extract_academic_keywords(impl, email_text)]

\* the single failures injected into a call: in the signals of the words of
\* the text, and in the rest of the call
SignalFaultSets(impl) ==
    {{}} \cup {{<<"leaf", "urgency">>}}
         \cup (IF impl = "detector" THEN {{<<"step", "loop">>}} ELSE {})

CallFaultSets(impl) ==
    {{}} \cup {{<<"model", "vectorizer">>}, {<<"model", "lr">>}, {<<"model", "stacking">>}}
         \cup (IF impl = "detector" THEN {{<<"leaf", "extract_urls">>}} ELSE {})

\* LeafSignals computed once for every text of the model
leaf_signals ==
    [impl \in Impls, text \in Texts, faults \in SignalFaultSets("detector") |->
        LeafSignals(impl, text, faults)]

\* the rest of predict_phishing, given the signals of the text and the list
\* urls that extract_urls returned to it
Stage1(impl, signals, urls, bundle, clf, headers, faults) ==
    LET first == PipelineScores(bundle, clf, faults)
        scores == LegacyScores(bundle, clf, faults, first)
    IN
    IF \/ scores.raised
       \/ signals.raised
       \/ impl = "detector" /\ <<"leaf", "extract_urls">> \in faults
    THEN [raised |-> TRUE]
    ELSE
    LET ensemble_score == scores.ensemble_score
        urgency == signals.urgency
        phishing_indicators == signals.phishing_indicators
    IN
    IF impl = "detector"
    THEN
        LET emotional_risk == QDivInt(signals.emotional_analysis.hidden_meaning_score, 100)
            url_risk == url_risk_loop(urls, QInt(0))
            final_score ==
                QSum(<< QMul(Q(35, 100), ensemble_score),
                        QMul(Q(20, 100), emotional_risk),
                        QMul(Q(20, 100), QDivInt(phishing_indicators, 10)),
                        QMul(Q(15, 100), QDivInt(urgency, 10)),
                        QMul(Q(5, 100), header_risks[headers]),
                        QMul(Q(5, 100), url_risk) >>)
        IN  [raised |-> FALSE,
             classification |-> IF QGe(final_score, Q(45, 100)) THEN "PHISHING"
                                ELSE "LEGITIMATE",
             confidence |-> final_score,
             model_probs |-> scores.model_probs,
             urgency_score |-> urgency,
             phishing_indicators_score |-> phishing_indicators,
             keywords |-> signals.keywords,
             ensemble_score |-> ensemble_score,
             emotional_analysis |-> signals.emotional_analysis]
    ELSE
        LET final_score ==
                QSum(<< QMul(Q(55, 100), ensemble_score),
                        QMul(Q(20, 100), QDivInt(phishing_indicators, 10)),
                        QMul(Q(15, 100), QDivInt(urgency, 10)),
                        QMul(Q(10, 100), header_risks[headers]) >>)
        IN  [raised |-> FALSE,
             classification |-> IF QGe(final_score, Q(50, 100)) THEN "PHISHING"
                                ELSE "LEGITIMATE",
             confidence |-> final_score,
             model_probs |-> scores.model_probs,
             urgency_score |-> urgency,
             phishing_indicators_score |-> phishing_indicators,
             keywords |-> signals.keywords,
             ensemble_score |-> ensemble_score]

\* the results predict_phishing can return, one per order in which
\* list(set(urls)) hands over the extracted URLs
predict_phishing(impl, email_text, bundle, clf, headers, faults) ==
    {Stage1(impl, leaf_signals[impl, email_text, AnalyzerFaults(faults)
                                                    \cup (faults \cap {<<"leaf", "urgency">>})],
            urls, bundle, clf, headers, faults) :
        urls \in Enumerations(extracted_urls[impl, email_text])}

(***************************************************************************)
(* The /detect handler (app/core/routes.py 38-209), which works with the   *)
(* predictor and the URL filter of app/detector.py.                        *)
(***************************************************************************)
\* SECURITY_CONFIG of app/config.py: the limits on len(email_text)
MIN_EMAIL_LENGTH == 10
MAX_EMAIL_LENGTH == 50000

\* Stage 2 without the branch for high-risk URLs: the blended score alone
\* decides
Stage2WithoutOverride(pred, url_analysis) ==
    LET combined_confidence ==
            QAdd(QMul(Q(7, 10), pred.confidence),
                 QMul(Q(3, 10), QDivInt(url_analysis.overall_risk, 100)))
    IN  IF QGe(combined_confidence, Q(45, 100))
        THEN [classification |-> "PHISHING", confidence |-> combined_confidence]
        ELSE [classification |-> "LEGITIMATE", confidence |-> combined_confidence]

\* Stage 2 that lets a Stage-1 PHISHING label stand when the blended score
\* is under the threshold
Stage2KeepsStage1Label(pred, url_analysis) ==
    LET combined_confidence ==
            QAdd(QMul(Q(7, 10), pred.confidence),
                 QMul(Q(3, 10), QDivInt(url_analysis.overall_risk, 100)))
    IN  IF url_analysis.has_suspicious_urls /\ QGe(url_analysis.overall_risk, QInt(50))
        THEN [classification |-> "PHISHING",
              confidence |-> QMax(combined_confidence, Q(7, 10))]
        ELSE IF QGe(combined_confidence, Q(45, 100)) \/ pred.classification = "PHISHING"
        THEN [classification |-> "PHISHING", confidence |-> combined_confidence]
        ELSE [classification |-> "LEGITIMATE", confidence |-> combined_confidence]

\* Stage 2 that adds the URL share to the whole Stage-1 confidence
Stage2WithoutMlWeight(pred, url_analysis) ==
    LET combined_confidence ==
            QAdd(pred.confidence, QMul(Q(3, 10), QDivInt(url_analysis.overall_risk, 100)))
    IN  IF url_analysis.has_suspicious_urls /\ QGe(url_analysis.overall_risk, QInt(50))
        THEN [classification |-> "PHISHING",
              confidence |-> QMax(combined_confidence, Q(7, 10))]
        ELSE IF QGe(combined_confidence, Q(45, 100))
        THEN [classification |-> "PHISHING", confidence |-> combined_confidence]
        ELSE [classification |-> "LEGITIMATE", confidence |-> combined_confidence]

\* Stage 2 (routes.py 98-115)
Stage2(pred, url_analysis) ==
    LET url_risk_weight == Q(3, 10)
        ml_weight == Q(7, 10)
        url_risk_normalized == QDivInt(url_analysis.overall_risk, 100)
        combined_confidence == QAdd(QMul(ml_weight, pred.confidence),
                                    QMul(url_risk_weight, url_risk_normalized))
    IN  IF url_analysis.has_suspicious_urls /\ QGe(url_analysis.overall_risk, QInt(50))
        THEN [classification |-> "PHISHING",
              confidence |-> QMax(combined_confidence, Q(7, 10))]
        ELSE IF QGe(combined_confidence, Q(45, 100))
        THEN [classification |-> "PHISHING", confidence |-> combined_confidence]
        ELSE [classification |-> "LEGITIMATE", confidence |-> combined_confidence]

\* what the handler answers once the text passed validation; pred is what
\* predict_phishing returned (or that it raised), url_analysis what
\* filter_urls returned (or that it raised)
DetectResponse(bundle, pred, url_result) ==
    IF bundle = "None" THEN [status |-> 500, error |-> "Models not found"]
    ELSE IF pred.raised THEN [status |-> 500, error |-> "Prediction failed"]
    ELSE
    LET url_analysis == IF url_result.raised THEN EmptyUrlAnalysis ELSE url_result.value
        final == Stage2(pred, url_analysis)
        emotional_analysis == pred.emotional_analysis
    IN  [status |-> 200,
         classification |-> final.classification,
         confidence |-> final.confidence,
         ml_confidence |-> pred.confidence,
         model_probs |-> pred.model_probs,
         urgency_score |-> pred.urgency_score,
         keywords |-> pred.keywords,
         url_analysis |->
            [urls_found |-> url_analysis.urls_found,
             high_risk_urls |-> Len(url_analysis.high_risk_urls),
             medium_risk_urls |-> Len(url_analysis.medium_risk_urls),
             overall_url_risk |-> url_analysis.overall_risk,
             suspicious_urls |-> url_analysis.has_suspicious_urls,
             url_details |-> url_analysis.urls],
         emotional_analysis |->
            [hidden_meaning_score |-> emotional_analysis.hidden_meaning_score,
             manipulation_risk |-> emotional_analysis.manipulation_risk,
             emotional_scores |-> emotional_analysis.emotional_scores,
             sentiment |-> emotional_analysis.sentiment,
             emotional_conflict |-> emotional_analysis.emotional_conflict,
             summary |-> emotional_analysis.composite_intensity]]

\* the validation of the posted email_text (routes.py 51-63); "" when it passes
ValidationError(email_text) ==
    IF email_text = "" THEN "No email_text provided"
    ELSE IF Len(email_text) < MIN_EMAIL_LENGTH THEN "Email text too short"
    ELSE IF Len(email_text) > MAX_EMAIL_LENGTH THEN "Email text too long"
    ELSE ""

(***************************************************************************)
(* The state machine.  A process loads the models once (routes.py 24-29:   *)
(* MODEL_BUNDLE is the legacy bundle, or None when loading raised) and     *)
(* then serves one call at a time: a POST to /detect, or a direct call     *)
(* of predict_phishing or filter_urls of either module.  req and out       *)
(* are the last call and what it returned; prev is what the same request   *)
(* returned the time before, once it has been sent again.                  *)
(***************************************************************************)
VARIABLES MODEL_BUNDLE, pc, req, out, prev,
          rate_limit_store, handlers, clock, admitted,
          prediction_history, daily_statistics

\* app.py 51: the limiter's store, the requests being handled by the
\* server's threads, the wall clock, and the admissions so far
web == <<rate_limit_store, handlers, clock, admitted>>

\* the two analytics tables the /detect handler writes (database.py 17-46)
analytics == <<prediction_history, daily_statistics>>

vars == <<MODEL_BUNDLE, pc, req, out, prev, web, analytics>>

\* client addresses (request.remote_addr) and the threads handling requests
ClientIps == {"10.0.0.1", "10.0.0.2"}
MaxHandlers == 2
HandlerIds == 1..MaxHandlers
IdleHandler == [at |-> "idle"]

NoCall == [op |-> "none"]
NoResult == [kind |-> "none"]

Init ==
    /\ MODEL_BUNDLE \in {"None", "legacy"}
    /\ pc = "idle"
    /\ req = NoCall
    /\ out = NoResult
    /\ prev = NoResult
    /\ rate_limit_store = [ip \in ClientIps |-> <<>>]
    /\ handlers = [h \in HandlerIds |-> IdleHandler]
    /\ clock = 0
    /\ admitted = [ip \in ClientIps |-> <<>>]
    /\ prediction_history = <<>>
    /\ daily_statistics = {}

\* filter_urls as the handler calls it: it raises when a step of it does
FilterUrlsResult(impl, urls, net, faults) ==
    IF <<"leaf", "extract_urls">> \in faults \/ <<"leaf", "analyze_single_url">> \in faults
    THEN [raised |-> TRUE]
    ELSE [raised |-> FALSE, value |-> filter_urls_of(impl, urls, net)]

NoNetwork == [mode |-> "unavailable", final |-> ""]

\* one run of the handler on a text that passed validation
DetectRuns(email_text, signals, clf, faults) ==
    LET orders == Enumerations(extracted_urls["detector", email_text])
    IN  {DetectResponse(MODEL_BUNDLE,
                        IF MODEL_BUNDLE = "None" THEN [raised |-> TRUE]
                        ELSE Stage1("detector", signals, urls1, MODEL_BUNDLE, clf, <<>>, faults),
                        FilterUrlsResult("detector", urls2, NoNetwork, faults)) :
            urls1 \in orders, urls2 \in orders}

\* POST /detect
Detect ==
    /\ pc = "idle"
    /\ \E text \in Texts :
        IF ValidationError(text) # ""
        THEN /\ req' = [op |-> "detect", text |-> text, clf |-> <<>>, faults |-> {}]
             /\ out' = [status |-> 400, error |-> ValidationError(text)]
        ELSE \E sf \in SignalFaultSets("detector") :
             LET email_text == Strip(text)
                 signals == leaf_signals["detector", email_text, sf]
             IN  \E cf \in CallFaultSets("detector") \cup {{<<"leaf", "analyze_single_url">>}} :
                 \E clf \in ClassifierAnswers(MODEL_BUNDLE) :
                    /\ sf = {} \/ cf = {}
                    /\ req' = [op |-> "detect", text |-> text, clf |-> clf,
                               faults |-> sf \cup cf]
                    /\ out' \in DetectRuns(email_text, signals, clf, sf \cup cf)
    /\ pc' = "detect"
    /\ UNCHANGED <<MODEL_BUNDLE, prev, web, analytics>>

\* the same request is posted again to a process in which nothing fails
Repeat ==
    /\ pc = "detect"
    /\ req.faults = {}
    /\ out.status = 200
    /\ prev = NoResult
    /\ LET email_text == Strip(req.text)
           signals == leaf_signals["detector", email_text, {}]
       IN  out' \in DetectRuns(email_text, signals, req.clf, {})
    /\ prev' = out
    /\ UNCHANGED <<MODEL_BUNDLE, pc, req, web, analytics>>

\* a direct call predict_phishing(email_text, bundle, headers); the caller
\* passes the bundle of the process or one it built with ModelBundle()
CallPredict ==
    /\ pc = "idle"
    /\ \E impl \in Impls, text \in Texts :
       \E sf \in SignalFaultSets(impl) :
       LET signals == leaf_signals[impl, text, sf]
       IN  \E cf \in CallFaultSets(impl), bundle \in {MODEL_BUNDLE, "empty", "pipeline"} :
           \E clf \in ClassifierAnswers(bundle), headers \in HeaderMaps,
              urls \in Enumerations(extracted_urls[impl, text]) :
                /\ sf = {} \/ cf = {}
                /\ req' = [op |-> "predict_phishing", impl |-> impl, text |-> text,
                           bundle |-> bundle, clf |-> clf, headers |-> headers,
                           faults |-> sf \cup cf]
                /\ out' = Stage1(impl, signals, urls, bundle, clf, headers, sf \cup cf)
    /\ pc' = "predict"
    /\ UNCHANGED <<MODEL_BUNDLE, prev, web, analytics>>

\* a direct call filter_urls(email_text)
CallFilterUrls ==
    /\ pc = "idle"
    /\ \E impl \in Impls, text \in Texts \cup LinkTexts :
       \E net \in (IF impl = "core" THEN ResolverOutcomes ELSE {NoNetwork}) :
            /\ req' = [op |-> "filter_urls", impl |-> impl, text |-> text, net |-> net]
            /\ out' \in filter_urls(impl, text, net)
    /\ pc' = "filter"
    /\ UNCHANGED <<MODEL_BUNDLE, prev, web, analytics>>

\* the result is handed over and the process waits for the next call
Discard ==
    /\ pc # "idle"
    /\ pc' = "idle"
    /\ req' = NoCall
    /\ out' = NoResult
    /\ prev' = NoResult
    /\ UNCHANGED <<MODEL_BUNDLE, web, analytics>>

Next == Detect \/ Repeat \/ CallPredict \/ CallFilterUrls \/ Discard

Spec == Init /\ [][Next]_vars

(***************************************************************************)
(* Properties of the /detect handler and of the calls it is built from.    *)
(***************************************************************************)
Answered == pc = "detect" /\ out.status = 200

\* 0.7 * ml_confidence + 0.3 * overall_url_risk / 100 of an answer of /detect
Blend(answer) ==
    QAdd(QMul(Q(7, 10), answer.ml_confidence),
         QMul(Q(3, 10), QDivInt(answer.url_analysis.overall_url_risk, 100)))

Override(answer) ==
    /\ answer.url_analysis.suspicious_urls
    /\ QGe(answer.url_analysis.overall_url_risk, QInt(50))

\* C1: whenever /detect answers for a text whose URL analysis has
\* has_suspicious_urls true and overall_risk >= 50, the classification is
\* PHISHING and the confidence is max(0.7*c + 0.3*overall_risk/100, 0.7),
\* whatever the Stage-1 confidence c and the Stage-1 label are.
C1_OverrideForcesPhishing ==
    (Answered /\ Override(out))
        => /\ out.classification = "PHISHING"
           /\ out.confidence = QMax(Blend(out), Q(7, 10))
           /\ QGe(out.confidence, Q(7, 10))

\* the override acts on a Stage-1 confidence of 0.1, far under the threshold
C1_Witness ==
    /\ Answered
    /\ Override(out)
    /\ out.ml_confidence = Q(1, 10)
    /\ out.classification = "PHISHING"
    /\ out.confidence = Q(7, 10)

\* C2: whenever /detect answers and the override does not apply, the
\* confidence is 0.7*c + 0.3*overall_risk/100 and the classification is
\* PHISHING exactly when that value is >= 0.45; the Stage-1 label has no say.
C2_BlendDecides ==
    (Answered /\ ~Override(out))
        => /\ out.confidence = Blend(out)
           /\ out.classification = "PHISHING" <=> QGe(Blend(out), Q(45, 100))

\* Stage 1 said PHISHING (c >= 0.45) and the answer is LEGITIMATE
C2_Witness ==
    /\ Answered
    /\ ~Override(out)
    /\ QGe(out.ml_confidence, Q(45, 100))
    /\ out.classification = "LEGITIMATE"
    /\ QLt(out.confidence, Q(45, 100))

PredictReturned == pc = "predict" /\ ~out.raised

\* the URL term as the sentence of C3 defines it, over the URLs of the
\* text; a host is an IP address when it is four groups of one to three
\* digits, the test of app/core/url_filter.py
ClaimedUrlRisk(urls) ==
    IF \E url \in urls : \/ is_url_shortener(url)
                         \/ has_suspicious_tld(url)
                         \/ is_ip_address_url("core", url)
    THEN QInt(1)
    ELSE IF \E url \in urls : check_suspicious_path(url) THEN Q(7, 10)
    ELSE QInt(0)

\* C3: the confidence app.detector.predict_phishing returns equals
\* 0.35*E + 0.20*M + 0.20*(I/10) + 0.15*(U/10) + 0.05*H + 0.05*Ru, where
\* Ru is 1 if any URL of the text is a shortener, has a suspicious TLD or an
\* IP-address host, 0.7 if none is but one has a suspicious path, else 0.
C3_Stage1Formula ==
    (PredictReturned /\ req.impl = "detector")
        => out.confidence =
            QSum(<< QMul(Q(35, 100), out.ensemble_score),
                    QMul(Q(20, 100), QDivInt(out.emotional_analysis.hidden_meaning_score, 100)),
                    QMul(Q(20, 100), QDivInt(out.phishing_indicators_score, 10)),
                    QMul(Q(15, 100), QDivInt(out.urgency_score, 10)),
                    QMul(Q(5, 100), header_risks[req.headers]),
                    QMul(Q(5, 100), ClaimedUrlRisk(extracted_urls["detector", req.text])) >>)

\* C4: predict_phishing of app.detector and of app.core.predictor both
\* classify PHISHING exactly when the confidence they return is >= 0.45.
C4_ThresholdInBothModules ==
    PredictReturned
        => (out.classification = "PHISHING" <=> QGe(out.confidence, Q(45, 100)))

InUnit(q) == QGe(q, QInt(0)) /\ QLe(q, QInt(1))

\* C5: whatever the text, the header map and the classifier probabilities,
\* a result of predict_phishing has 0 <= urgency_score <= 10,
\* 0 <= phishing_indicators_score <= 10, 0 <= confidence <= 1 and (in
\* app.detector, which runs the emotional analyzer)
\* 0 <= hidden_meaning_score <= 100.
C5_ScoresInRange ==
    PredictReturned
        => /\ QGe(out.urgency_score, QInt(0)) /\ QLe(out.urgency_score, QInt(10))
           /\ QGe(out.phishing_indicators_score, QInt(0))
           /\ QLe(out.phishing_indicators_score, QInt(10))
           /\ InUnit(out.confidence)
           /\ InUnit(out.ensemble_score)
           /\ req.impl = "detector"
                => /\ QGe(out.emotional_analysis.hidden_meaning_score, QInt(0))
                   /\ QLe(out.emotional_analysis.hidden_meaning_score, QInt(100))

\* every signal at its upper end at once: the caps are reached, not passed
C5_Witness ==
    /\ PredictReturned
    /\ req.impl = "detector"
    /\ out.urgency_score = QInt(10)
    /\ out.phishing_indicators_score = QInt(10)
    /\ out.emotional_analysis.hidden_meaning_score = QInt(100)
    /\ out.confidence = QInt(1)

\* the url_details of an answer as a set: their order is the order in
\* which list(set(urls)) enumerated the URLs
DetailsOf(answer) ==
    {answer.url_analysis.url_details[i] : i \in DOMAIN answer.url_analysis.url_details}

\* C6: the same request posted twice to the same process gets the same
\* answer: classification, confidence, Stage-1 confidence, model
\* probabilities, urgency, keywords, emotional analysis and URL aggregates
\* are equal, in whatever order the set of URLs was enumerated either time
\* (the clock and random numbers are read nowhere on the way).
C6_Deterministic ==
    (pc = "detect" /\ prev # NoResult)
        => /\ out.status = prev.status
           /\ out.classification = prev.classification
           /\ out.confidence = prev.confidence
           /\ out.ml_confidence = prev.ml_confidence
           /\ out.model_probs = prev.model_probs
           /\ out.urgency_score = prev.urgency_score
           /\ out.keywords = prev.keywords
           /\ out.emotional_analysis = prev.emotional_analysis
           /\ [out.url_analysis EXCEPT !.url_details = <<>>]
                = [prev.url_analysis EXCEPT !.url_details = <<>>]
           /\ DetailsOf(out) = DetailsOf(prev)

\* the second run enumerated two URLs in the other order, one of them
\* flagged and one not
C6_Witness ==
    /\ pc = "detect"
    /\ prev # NoResult
    /\ out.url_analysis.urls_found = 2
    /\ out.url_analysis.url_details # prev.url_analysis.url_details
    /\ \E i, j \in DOMAIN out.url_analysis.url_details :
            /\ url_flags[out.url_analysis.url_details[i].url].flagged
            /\ ~url_flags[out.url_analysis.url_details[j].url].flagged

\* C7: when no classifier artifact is loaded, predict_phishing returns
\* ensemble_score 0 and model_probs {} without raising, and a well-formed
\* request to /detect still gets a verdict, never an error.
C7_NoClassifierStillVerdict ==
    /\ (pc = "predict" /\ req.bundle \in {"None", "empty"} /\ req.faults = {})
            => /\ ~out.raised
               /\ out.ensemble_score = QInt(0)
               /\ out.model_probs = <<>>
    /\ (pc = "detect" /\ MODEL_BUNDLE = "None" /\ req.faults = {}
                      /\ ValidationError(req.text) = "")
            => /\ out.status = 200
               /\ out.classification \in {"PHISHING", "LEGITIMATE"}

\* C8: a failure of any single step below the fusion (a scorer of the
\* text, the emotional analyzer, the URL analysis, the vectorizer or one
\* classifier) never makes predict_phishing raise and never turns the
\* answer of /detect to a well-formed request into an error.
C8_SingleFailureStillVerdict ==
    /\ (pc = "predict" /\ Cardinality(req.faults) = 1) => ~out.raised
    /\ (pc = "detect" /\ MODEL_BUNDLE # "None" /\ Cardinality(req.faults) = 1)
            => out.status = 200

\* C9: for an empty or whitespace-only text predict_phishing of
\* app.detector returns a fully populated all-low-risk result: urgency 0,
\* indicators 0, no keywords, hidden_meaning_score 0, all six categories in
\* emotional_scores, a sentiment with mixed_sentiment, an
\* emotional_conflict with conflict_score and a manipulation_risk of level
\* low; and filter_urls finds no URL in such a text.
C9_EmptyTextFullyPopulated ==
    /\ (PredictReturned /\ req.impl = "detector" /\ Strip(req.text) = "" /\ req.faults = {})
            => /\ out.urgency_score = QInt(0)
               /\ out.phishing_indicators_score = QInt(0)
               /\ out.keywords = <<>>
               /\ out.emotional_analysis.hidden_meaning_score = QInt(0)
               /\ DOMAIN out.emotional_analysis.emotional_scores
                    = {Emotions[k] : k \in DOMAIN Emotions}
               /\ "mixed_sentiment" \in DOMAIN out.emotional_analysis.sentiment
               /\ "conflict_score" \in DOMAIN out.emotional_analysis.emotional_conflict
               /\ out.emotional_analysis.manipulation_risk.level = "low"
    /\ (pc = "filter" /\ Strip(req.text) = "") => out.urls_found = 0

\* C10 as stated: filter_urls returns overall_risk 0 exactly when
\* urls_found is 0, and with urls_found 0 the lists urls, high_risk_urls and
\* medium_risk_urls are empty and has_suspicious_urls is false.
C10_ZeroRiskIffNoUrls ==
    pc = "filter"
        => /\ out.overall_risk = QInt(0) <=> out.urls_found = 0
           /\ out.urls_found = 0
                => /\ out.urls = <<>>
                   /\ out.high_risk_urls = <<>>
                   /\ out.medium_risk_urls = <<>>
                   /\ ~out.has_suspicious_urls

\* C10, amended: when filter_urls finds no URL, overall_risk is 0, the lists
\* urls, high_risk_urls and medium_risk_urls are empty and
\* has_suspicious_urls is false; urls_found is the number of entries of
\* urls, and a result with overall_risk above 0 has urls_found above 0.
C10_NoUrlsZeroRisk ==
    pc = "filter"
        => /\ out.urls_found = Len(out.urls)
           /\ out.urls_found = 0
                => /\ out.overall_risk = QInt(0)
                   /\ out.urls = <<>>
                   /\ out.high_risk_urls = <<>>
                   /\ out.medium_risk_urls = <<>>
                   /\ ~out.has_suspicious_urls
           /\ QGt(out.overall_risk, QInt(0)) => out.urls_found > 0

\* filter_urls ran on a text of words with no URL in it
C10_Witness ==
    /\ pc = "filter"
    /\ req.text \notin {"", WhitespaceText}
    /\ out.urls_found = 0
    /\ out.overall_risk = QInt(0)

(***************************************************************************)
(* The functions of the URL filter called on their own, as the tests of    *)
(* src/tests do: analyze_single_url and is_ip_address_url of either module *)
(* on URLs put together from a scheme, a host and a path.                  *)
(***************************************************************************)
UrlSchemes == {"http://", "https://"}

\* "~" is the non-ASCII letter of NonAsciiBlock; the last host has an
\* IPv6 bracket that never closes
UrlHosts ==
    {"example.com", "bit.ly", "192.168.1.1", "10.0.0.1", "192.168.1.1:8080", "xn--a.tk",
     "a.b.c.xn--bit.ly.tk", "a.b.c.d.example.com", "1\\.2\\.3\\.4", "p~ypal.com", "[::1"}

UrlPaths == {"", "/login", "/docs?next=verify"}

CheckedUrls == {scheme \o host \o path : scheme \in UrlSchemes, host \in UrlHosts, path \in UrlPaths}

\* the network as each module sees it: only url_filter.py sends a request
NetworksOf(impl) == IF impl = "core" THEN ResolverOutcomes ELSE {NoNetwork}

\* a direct call analyze_single_url(url)
CallAnalyzeSingleUrl ==
    /\ pc = "idle"
    /\ \E impl \in Impls, url \in CheckedUrls :
       \E net \in NetworksOf(impl) :
            /\ req' = [op |-> "analyze_single_url", impl |-> impl, url |-> url, net |-> net]
            /\ out' = analyze_single_url(impl, url, net)
    /\ pc' = "analyze"
    /\ UNCHANGED <<MODEL_BUNDLE, prev, web, analytics>>

\* a direct call is_ip_address_url(url)
CallIsIpAddressUrl ==
    /\ pc = "idle"
    /\ \E impl \in Impls, url \in CheckedUrls :
            /\ req' = [op |-> "is_ip_address_url", impl |-> impl, url |-> url]
            /\ out' = [value |-> is_ip_address_url(impl, url)]
    /\ pc' = "is_ip"
    /\ UNCHANGED <<MODEL_BUNDLE, prev, web, analytics>>

\* hosts with and without the punycode marker, with letters of other blocks,
\* with a letter that normalises to ASCII, no host, and a netloc urlparse rejects
HomographUrls ==
    {"http://example.com", "http://xn--a.tk", "http://a.xn--b.com/login", "http://XN--a.tk",
     "http://p~ypal.com", "http://~~~", "http://~|", "http://^xample.com", "http://^~.com",
     "http://", "xn--a.tk/login", "http://[::1"}

CallCheckHomographAttack ==
    /\ pc = "idle"
    /\ \E impl \in Impls, url \in HomographUrls :
            /\ req' = [op |-> "check_homograph_attack", impl |-> impl, url |-> url]
            /\ out' = [value |-> check_homograph_attack(url)]
    /\ pc' = "homograph"
    /\ UNCHANGED <<MODEL_BUNDLE, prev, web, analytics>>

\* extract_urls returns list(set(urls)), in one of the set's orders
CallExtractUrls ==
    /\ pc = "idle"
    /\ \E impl \in Impls, text \in LinkTexts :
            /\ req' = [op |-> "extract_urls", impl |-> impl, text |-> text]
            /\ \E urls \in Enumerations(extracted_urls[impl, text]) : out' = [value |-> urls]
    /\ pc' = "extract"
    /\ UNCHANGED <<MODEL_BUNDLE, prev, web, analytics>>

UrlNext ==
    \/ CallAnalyzeSingleUrl
    \/ CallIsIpAddressUrl
    \/ CallExtractUrls
    \/ CallCheckHomographAttack
    \/ Discard

UrlSpec == Init /\ [][UrlNext]_vars

\* the increment the scoring table gives to each issue
IssueIncrement ==
    ("Uses IP address instead of domain name" :> 30)
        @@ ("Uses URL shortening service" :> 25)
        @@ ("Uses suspicious top-level domain" :> 20)
        @@ ("Contains lookalike characters (homograph attack)" :> 35)
        @@ ("Has excessive number of subdomains" :> 15)
        @@ ("Path contains suspicious keywords" :> 10)

\* analyze_single_url computed once for every URL called directly
checked_url_analysis ==
    [impl \in Impls, url \in CheckedUrls, net \in ResolverOutcomes |->
        analyze_single_url(impl, url, net)]

IssueSet(report) == {report.issues[i] : i \in DOMAIN report.issues}

IncrementSum(report) == SumSeq([i \in DOMAIN report.issues |-> IssueIncrement[report.issues[i]]])

\* C11: the risk_score analyze_single_url returns is min(100, sum of the
\* increments of the checks that triggered: IP host 30, shortener 25,
\* suspicious TLD 20, homograph 35, excessive subdomains 15, suspicious
\* path/query 10); a URL whose triggered checks are among those of another
\* URL scores no higher than it, and no score exceeds 100.
C11_AdditiveCappedScore ==
    pc = "analyze"
        => /\ out.risk_score = Min(100, IncrementSum(out))
           /\ out.risk_score <= 100
           /\ \A url2 \in CheckedUrls, net2 \in NetworksOf(req.impl) :
                IssueSet(out) \subseteq IssueSet(checked_url_analysis[req.impl, url2, net2])
                    => out.risk_score <= checked_url_analysis[req.impl, url2, net2].risk_score

\* five checks triggered on one URL: their increments add up to 105 and the
\* score returned is 100
C11_Witness ==
    /\ pc = "analyze"
    /\ Cardinality(IssueSet(out)) = 5
    /\ IncrementSum(out) = 105
    /\ out.risk_score = 100

\* C18: in every record analyze_single_url returns, risk_level is HIGH
\* iff risk_score >= 50, MEDIUM iff 30 <= risk_score < 50, LOW iff
\* 10 <= risk_score < 30 and SAFE iff risk_score < 10, for the capped
\* risk_score of the record; and issues has exactly one entry for each
\* check that triggered, none for a check that did not.
C18_LevelAgreesWithScore ==
    pc = "analyze"
        => /\ out.risk_level = "HIGH" <=> out.risk_score >= 50
           /\ out.risk_level = "MEDIUM" <=> (30 <= out.risk_score /\ out.risk_score < 50)
           /\ out.risk_level = "LOW" <=> (10 <= out.risk_score /\ out.risk_score < 30)
           /\ out.risk_level = "SAFE" <=> out.risk_score < 10
           /\ Len(out.issues) = Cardinality(IssueSet(out))
           /\ \A k \in DOMAIN UrlChecks(req.impl, req.url, req.net) :
                UrlChecks(req.impl, req.url, req.net)[k][1]
                    <=> UrlChecks(req.impl, req.url, req.net)[k][2] \in IssueSet(out)

\* a score at the lower end of a level: one check of 30 gives MEDIUM
C18_Witness ==
    /\ pc = "analyze"
    /\ out.risk_score = 30
    /\ out.risk_level = "MEDIUM"
    /\ out.issues = <<"Uses IP address instead of domain name">>

\* the host of the URL is four groups of one to three digits with dots
\* between them
DottedQuadHost(url) ==
    QuadMatch(hostname_of(url), Occurrences(hostname_of(url), "."), 1)

\* C19: is_ip_address_url of app.core.url_filter and of app.detector
\* returns True exactly for the URLs whose host is a dotted-quad IPv4
\* literal, and analyze_single_url of either module adds 30 and the issue
\* 'Uses IP address instead of domain name' for every such URL.
C19_IpLiteralDetected ==
    /\ pc = "is_ip" => (out.value <=> DottedQuadHost(req.url))
    /\ (pc = "analyze" /\ DottedQuadHost(req.url))
            => /\ "Uses IP address instead of domain name" \in IssueSet(out)
               /\ out.risk_score >= 30

\* the value of the Authentication-Results header of a header map, in
\* lower case ("" when the map has none)
AuthenticationResults(hdrs) ==
    IF "Authentication-Results" \in DOMAIN hdrs THEN Lower(hdrs["Authentication-Results"])
    ELSE IF "Authentication-Results:" \in DOMAIN hdrs THEN Lower(hdrs["Authentication-Results:"])
    ELSE ""

\* H as the sentence of C12 defines it
ClaimedHeaderRisk(hdrs) ==
    QAdd(QInt(1),
         QMul(QInt(-1),
              Q(BoolToInt(Contains(AuthenticationResults(hdrs), "spf=pass"))
                    + BoolToInt(Contains(AuthenticationResults(hdrs), "dkim=pass"))
                    + BoolToInt(Contains(AuthenticationResults(hdrs), "dmarc=pass")), 3)))

AllPassHeaders == "Authentication-Results:" :> "spf=pass dkim=pass dmarc=pass"

\* C12: the header-trust risk is H = 1 - (spf + dkim + dmarc)/3, a flag
\* being 1 iff the Authentication-Results value contains its '=pass'
\* token: H is 1 without headers and 0 with spf=pass dkim=pass dmarc=pass,
\* and the Stage-1 confidence of app.detector changes by 0.05 * (H - H')
\* when only the headers change; for the all-pass headers it is exactly
\* 0.05 lower than for the same email without headers.
C12_HeaderTrustRisk ==
    /\ ClaimedHeaderRisk(<<>>) = QInt(1)
    /\ ClaimedHeaderRisk(AllPassHeaders) = QInt(0)
    /\ (PredictReturned /\ req.impl = "detector")
            => \A hdrs \in HeaderMaps :
               \A other \in predict_phishing("detector", req.text, req.bundle, req.clf,
                                             hdrs, req.faults) :
                    /\ ~other.raised
                    /\ QAdd(out.confidence, QMul(Q(5, 100), ClaimedHeaderRisk(hdrs)))
                        = QAdd(other.confidence,
                               QMul(Q(5, 100), ClaimedHeaderRisk(req.headers)))
                    /\ (req.headers = AllPassHeaders /\ hdrs = <<>>)
                            => other.confidence = QAdd(out.confidence, Q(5, 100))

\* the headers decide: the email with the all-pass headers is LEGITIMATE
\* and the same email without headers is PHISHING, 0.05 above it
C12_Witness ==
    /\ PredictReturned
    /\ req.impl = "detector"
    /\ req.headers = AllPassHeaders
    /\ out.classification = "LEGITIMATE"
    /\ \E other \in predict_phishing("detector", req.text, req.bundle, req.clf,
                                     <<>>, req.faults) :
            /\ other.classification = "PHISHING"
            /\ other.confidence = QAdd(out.confidence, Q(5, 100))

\* number of occurrences of urgency phrases in the text
UrgencyPhraseCount(text) ==
    SumSeq([k \in DOMAIN urgency_keywords |-> StrCount(Lower(text), urgency_keywords[k][1])])

\* the text of Scenario A: a shortener link, at least three urgency phrases
\* and a credential-request phrase
ScenarioA(text) ==
    /\ \E url \in extracted_urls["detector", text] : is_url_shortener(url)
    /\ UrgencyPhraseCount(text) >= 3
    /\ \E alt \in PHISHING_INDICATORS[4].alts : AltFound(Lower(text), alt)

\* C13: for every text with a URL-shortener link, at least three urgency
\* phrases and a credential-request phrase, the answer of /detect is
\* PHISHING with confidence >= 0.45, whatever the classifier returned.
C13_ScenarioAIsPhishing ==
    (Answered /\ ScenarioA(Strip(req.text)))
        => /\ out.classification = "PHISHING"
           /\ QGe(out.confidence, Q(45, 100))

\* the text of Scenario B: no URL, no urgency phrase, no indicator category
\* and no emotional pattern matches in it
ScenarioB(text) ==
    /\ extracted_urls["detector", text] = {}
    /\ UrgencyPhraseCount(text) = 0
    /\ leaf_signals["detector", text, {}].phishing_indicators = QInt(0)
    /\ leaf_signals["detector", text, {}].emotional_analysis.total_emotional_markers = 0

RECURSIVE ConcatAll(_)
ConcatAll(parts) == IF Len(parts) = 0 THEN "" ELSE Head(parts) \o ConcatAll(Tail(parts))

\* html.escape(text) with quote=True
html_escape(text) ==
    ConcatAll([i \in 1..Len(text) |->
                  CASE At(text, i) = "&" -> "&amp;"
                    [] At(text, i) = "<" -> "&lt;"
                    [] At(text, i) = ">" -> "&gt;"
                    [] At(text, i) = "\"" -> "&quot;"
                    [] At(text, i) = "'" -> "&#x27;"
                    [] OTHER -> At(text, i)])

\* str.replace(old, new) for a non-empty old: leftmost occurrences, not overlapping
RECURSIVE StrReplace(_, _, _)
StrReplace(s, old, new) ==
    IF Occurrences(s, old) = {} THEN s
    ELSE SubSeq(s, 1, FirstOf(Occurrences(s, old), 0) - 1) \o new
            \o StrReplace(SubSeq(s, FirstOf(Occurrences(s, old), 0) + Len(old), Len(s)),
                          old, new)

\* str.capitalize()
Capitalize(s) ==
    IF s = "" THEN ""
    ELSE (IF At(s, 1) \in LowerLetters
          THEN CHOOSE u \in UpperLetters : LowerChar(u) = At(s, 1)
          ELSE At(s, 1))
         \o Lower(SubSeq(s, 2, Len(s)))

OpenTag == "<span class=\"risk-high\">"
CloseTag == "</span>"

\* sorted(set(keywords), key=len, reverse=True): the order of keywords of
\* equal length is the set's iteration order, which the hash seed decides
KeywordOrders(keywords) ==
    {kws \in Enumerations({keywords[k] : k \in DOMAIN keywords}) :
        \A i, j \in DOMAIN kws : i < j => Len(kws[i]) >= Len(kws[j])}

\* the loop of app/detector.py: two str.replace per keyword on the running output
RECURSIVE ReplaceEach(_, _)
ReplaceEach(out_text, kws) ==
    IF kws = <<>> THEN out_text
    ELSE ReplaceEach(
            StrReplace(StrReplace(out_text, Head(kws), OpenTag \o Head(kws) \o CloseTag),
                       Capitalize(Head(kws)),
                       OpenTag \o Capitalize(Head(kws)) \o CloseTag),
            Tail(kws))

\* \b at the position before character i
WordBoundaryAt(s, i) ==
    (i > 1 /\ At(s, i - 1) \in WordChars) # (i <= Len(s) /\ At(s, i) \in WordChars)

\* the alternatives of \b(k1|k2|...)\b that match at i, ignoring case
KeywordsAt(s, kws, i) ==
    {k \in DOMAIN kws :
        /\ i + Len(kws[k]) - 1 <= Len(s)
        /\ Lower(SubSeq(s, i, i + Len(kws[k]) - 1)) = Lower(kws[k])
        /\ WordBoundaryAt(s, i)
        /\ WordBoundaryAt(s, i + Len(kws[k]))}

\* the text from position i on with the match of alternative k at position m wrapped
WrapMatch(s, kws, i, m, k) ==
    SubSeq(s, i, m - 1) \o OpenTag \o SubSeq(s, m, m + Len(kws[k]) - 1) \o CloseTag

\* regex.sub(_repl, out) of app/core/explainer.py from position i on
RECURSIVE RegexSub(_, _, _)
RegexSub(s, kws, i) ==
    LET m == FirstOf({j \in i..Len(s) : KeywordsAt(s, kws, j) # {}}, 0)
    IN  IF m = 0 THEN SubSeq(s, i, Len(s))
        ELSE WrapMatch(s, kws, i, m, FirstOf(KeywordsAt(s, kws, m), 0))
                \o RegexSub(s, kws, m + Len(kws[FirstOf(KeywordsAt(s, kws, m), 0)]))

\* the outputs highlight_keywords can return for a list of non-empty keywords
highlight_keywords(impl, text, keywords) ==
    IF keywords = <<>> THEN {html_escape(text)}
    ELSE IF impl = "detector"
         THEN {ReplaceEach(html_escape(text), kws) : kws \in KeywordOrders(keywords)}
         ELSE {RegexSub(html_escape(text), kws, 1) : kws \in KeywordOrders(keywords)}

HighlightTexts ==
    {"urgent", "my account", "a & b urgent", "Urgent URGENT urgent", "fee <b>",
     "risk of fee", "class exam", "say \"fee\" it's"}

KeywordLists ==
    {<<>>, <<"urgent">>, <<"fee">>, <<"urgent", "risk">>, <<"account", "count">>,
     <<"amp", "urgent">>, <<"fee", "exam">>, <<"urgent", "urgent">>, <<"exam", "class">>}

CallHighlightKeywords ==
    /\ pc = "idle"
    /\ \E impl \in Impls, text \in HighlightTexts, keywords \in KeywordLists :
            /\ req' = [op |-> "highlight_keywords", impl |-> impl, text |-> text,
                       keywords |-> keywords]
            /\ \E value \in highlight_keywords(impl, text, keywords) :
                    out' = [value |-> value]
    /\ pc' = "highlight"
    /\ UNCHANGED <<MODEL_BUNDLE, prev, web, analytics>>

(***************************************************************************)
(* analyze_emotional_tone called directly, with one piece of it raising.   *)
(***************************************************************************)
ToneTexts == {WordFragments[k] : k \in DOMAIN WordFragments} \cup {""}

\* one failure at a time: a regex, a whole category, or a later step
ToneFaultSets ==
    {{}} \cup {{<<"category", EMOTIONAL_PATTERNS[k].emotion>>} : k \in DOMAIN EMOTIONAL_PATTERNS}
         \cup UNION {{{<<"pattern", EMOTIONAL_PATTERNS[k].emotion, p>>} :
                            p \in DOMAIN EMOTIONAL_PATTERNS[k].patterns} :
                        k \in DOMAIN EMOTIONAL_PATTERNS}
         \cup {{<<"step", s>>} : s \in AnalyzerSteps}

CallAnalyzeEmotionalTone ==
    /\ pc = "idle"
    /\ \E text \in ToneTexts, faults \in ToneFaultSets :
            /\ req' = [op |-> "analyze_emotional_tone", text |-> text, faults |-> faults]
            /\ out' = analyze_emotional_tone(text, faults)
    /\ pc' = "tone"
    /\ UNCHANGED <<MODEL_BUNDLE, prev, web, analytics>>

\* texts made of urgency phrases and of academic keywords
PhraseTexts ==
    {"must", "must must must", "urgent", "right now", "act now", "immediate immediate",
     "hello", "Right Now today", "please approve the fee", "verify your Account",
     "approved exams feed", "exam fee exam"}

CallCalculateUrgencyScore ==
    /\ pc = "idle"
    /\ \E impl \in Impls, text \in PhraseTexts :
            /\ req' = [op |-> "calculate_urgency_score", impl |-> impl, text |-> text]
            /\ out' = [value |-> calculate_urgency_score(text)]
    /\ pc' = "urgency"
    /\ UNCHANGED <<MODEL_BUNDLE, prev, web, analytics>>

CallExtractAcademicKeywords ==
    /\ pc = "idle"
    /\ \E impl \in Impls, text \in PhraseTexts :
            /\ req' = [op |-> "extract_academic_keywords", impl |-> impl, text |-> text]
            /\ out' = [value |-> extract_academic_keywords(impl, text)]
    /\ pc' = "keywords"
    /\ UNCHANGED <<MODEL_BUNDLE, prev, web, analytics>>

TextNext ==
    \/ CallHighlightKeywords
    \/ CallAnalyzeEmotionalTone
    \/ CallCalculateUrgencyScore
    \/ CallExtractAcademicKeywords
    \/ Discard

TextSpec == Init /\ [][TextNext]_vars

StripWrappers(s) == StrReplace(StrReplace(s, OpenTag, ""), CloseTag, "")

\* C15: highlight_keywords escapes the text and then only inserts wrapper
\* tags: deleting the opening and closing wrapper tags from the output gives
\* the HTML-escaped input, and with no keywords the output is the escaped input
C15_OnlyWrappersInserted ==
    pc = "highlight" =>
        /\ StripWrappers(out.value) = html_escape(req.text)
        /\ req.keywords = <<>> => out.value = html_escape(req.text)

\* the failure that is isolated as the claim describes it: the pieces of f
\* match nothing, and nothing else changes
PiecesOf(f) ==
    IF f[1] = "pattern" THEN {f}
    ELSE {<<"pattern", f[2], p>> :
            p \in DOMAIN EMOTIONAL_PATTERNS[CHOOSE k \in DOMAIN EMOTIONAL_PATTERNS :
                                                EMOTIONAL_PATTERNS[k].emotion = f[2]].patterns}

\* C16: analyze_emotional_tone never raises and isolates a failure: when one
\* regex or one whole category raises, that piece counts as no match, and the
\* other categories' scores, hidden_meaning_score, emotional_conflict,
\* manipulation_risk and risk_factors are what they are when that piece
\* matches nothing; only a failure of the whole loop gives the fixed
\* all-zero structure
C16_FailureIsolated ==
    pc = "tone" =>
        /\ <<"step", "loop">> \in req.faults => out = _get_empty_analysis
        /\ \A f \in req.faults : f[1] \in {"pattern", "category"} =>
                /\ \A e \in DOMAIN analyze_emotional_tone(req.text, PiecesOf(f)).emotional_scores :
                        e # f[2] =>
                            /\ e \in DOMAIN out.emotional_scores
                            /\ out.emotional_scores[e]
                                 = analyze_emotional_tone(req.text, PiecesOf(f)).emotional_scores[e]
                /\ out.hidden_meaning_score
                     = analyze_emotional_tone(req.text, PiecesOf(f)).hidden_meaning_score
                /\ out.emotional_conflict
                     = analyze_emotional_tone(req.text, PiecesOf(f)).emotional_conflict
                /\ out.manipulation_risk
                     = analyze_emotional_tone(req.text, PiecesOf(f)).manipulation_risk
                /\ out.risk_factors
                     = analyze_emotional_tone(req.text, PiecesOf(f)).risk_factors

\* C17: for a text with at least one extracted URL, filter_urls returns one
\* record per extracted URL, high_risk_urls and medium_risk_urls are the HIGH
\* and the MEDIUM records, overall_risk is the mean of the records' risk
\* scores rounded to 2 decimals, urls_found is the number of records, and
\* has_suspicious_urls tells whether a record is HIGH or MEDIUM
C17_FilterUrlsAggregates ==
    (pc = "filter" /\ extracted_urls[req.impl, req.text] # {}) =>
        /\ out.urls_found = Len(out.urls)
        /\ Len(out.urls) = Cardinality(extracted_urls[req.impl, req.text])
        /\ \A url \in extracted_urls[req.impl, req.text] :
                \E i \in DOMAIN out.urls :
                    out.urls[i] = single_url_analysis[req.impl, url, req.net]
        /\ out.high_risk_urls = SelectSeq(out.urls, LAMBDA u : u.risk_level = "HIGH")
        /\ out.medium_risk_urls = SelectSeq(out.urls, LAMBDA u : u.risk_level = "MEDIUM")
        /\ QMul(out.overall_risk, QInt(100))[2] = 1
        /\ QLe(QAdd(Q(SumSeq([i \in DOMAIN out.urls |-> out.urls[i].risk_score]), Len(out.urls)),
                    Q(-1, 200)),
               out.overall_risk)
        /\ QLe(out.overall_risk,
               QAdd(Q(SumSeq([i \in DOMAIN out.urls |-> out.urls[i].risk_score]), Len(out.urls)),
                    Q(1, 200)))
        /\ out.has_suspicious_urls
             <=> \E i \in DOMAIN out.urls : out.urls[i].risk_level \in {"HIGH", "MEDIUM"}

\* three URLs, one HIGH and one MEDIUM, whose mean 130/3 is rounded to 43.33
C17_Witness ==
    /\ pc = "filter"
    /\ out.urls_found = 3
    /\ Len(out.high_risk_urls) = 1
    /\ Len(out.medium_risk_urls) = 1
    /\ out.overall_risk = Q(4333, 100)
    /\ out.has_suspicious_urls

\* the links the text holds: every scheme:// link as written, and every bare
\* www. link, one that is not part of a scheme:// link, behind "http://"
LinksOf(text) ==
    {SubSeq(text, sp[1], sp[2]) : sp \in FindSpans("core", text, "url_pattern")}
        \cup {"http://" \o SubSeq(text, sp[1], sp[2]) :
                sp \in {w \in FindSpans("core", text, "www_pattern") :
                            ~\E h \in FindSpans("core", text, "url_pattern") :
                                h[1] <= w[1] /\ w[2] <= h[2]}}

\* C20: extract_urls returns each link of the text exactly once, in both
\* implementations: scheme:// links as written, bare www. links with
\* "http://" in front, and a repeated link as one entry
C20_EachLinkOnce ==
    pc = "extract" =>
        /\ {out.value[i] : i \in DOMAIN out.value} = LinksOf(req.text)
        /\ Len(out.value) = Cardinality(LinksOf(req.text))

\* the URL the claim has the TLD and homograph checks look at
FinalDestination(impl, url, net) ==
    IF impl = "core" /\ net.mode = "ok" /\ net.final # "" /\ net.final # url
    THEN net.final ELSE url

\* C21: analyze_single_url runs the suspicious-TLD check and the homograph
\* check on the resolver's final destination when the resolver returns a
\* different URL; when the resolver is unavailable or raises, the record is
\* the one an identity resolver gives
C21_ChecksOnFinalDestination ==
    pc = "analyze" =>
        /\ ("Uses suspicious top-level domain" \in IssueSet(out))
             <=> has_suspicious_tld(FinalDestination(req.impl, req.url, req.net))
        /\ ("Contains lookalike characters (homograph attack)" \in IssueSet(out))
             <=> check_homograph_attack(FinalDestination(req.impl, req.url, req.net))
        /\ req.net.mode \in {"unavailable", "fails"} =>
                out = checked_url_analysis[req.impl, req.url, [mode |-> "ok", final |-> ""]]

\* the blocks of the characters of a normalised host, ASCII being one block
BlocksOf(norm) ==
    {IF At(norm, i) \in {"~", "|", "^"} THEN NonAsciiBlock[At(norm, i)] ELSE "ASCII" :
        i \in 1..Len(norm)}

\* C22: check_homograph_attack flags a host with the punycode marker (it
\* starts with "xn--" or contains ".xn--"); otherwise it does not flag a host
\* whose NFKC form is pure ASCII; otherwise it flags the host exactly when
\* its characters come from more than one block; a failure inside gives
\* "not flagged"
C22_HomographProcedure ==
    pc = "homograph" =>
        out.value =
            IF urlparse_raises(req.url) THEN FALSE
            ELSE IF \/ StartsAt(hostname_of(req.url), 1, "xn--")
                    \/ Contains(hostname_of(req.url), ".xn--") THEN TRUE
            ELSE IF BlocksOf(NFKC(hostname_of(req.url))) \subseteq {"ASCII"} THEN FALSE
            ELSE Cardinality(BlocksOf(NFKC(hostname_of(req.url)))) > 1

\* a host with a fullwidth letter, which NFKC turns into plain ASCII
C22_Witness ==
    /\ pc = "homograph"
    /\ req.url = "http://^xample.com"
    /\ NFKC(hostname_of(req.url)) = "example.com"
    /\ out.value = FALSE

\* text is the phrase written one to three times, separated by blanks
RepeatsOnly(text, phrase) ==
    \E n \in 1..3 : text = phrase \o RepeatStr(" " \o phrase, n - 1)

\* C23: calculate_urgency_score is the occurrence-weighted average of the
\* table weights, capped at 10: a text that only repeats one phrase of weight
\* w scores exactly w, and no more than a text that holds a single occurrence
\* of a phrase with a larger weight
C23_WeightedAverage ==
    pc = "urgency" =>
        \A k \in DOMAIN urgency_keywords :
            RepeatsOnly(req.text, urgency_keywords[k][1]) =>
                /\ out.value = QInt(urgency_keywords[k][2])
                /\ \A k2 \in DOMAIN urgency_keywords :
                        urgency_keywords[k2][2] > urgency_keywords[k][2] =>
                            QLe(out.value, calculate_urgency_score(urgency_keywords[k2][1]))

\* C24: extract_academic_keywords returns the keywords of the list that occur
\* in the text as whole words, ignoring case, in the order of the list and
\* each at most once, in both implementations
C24_KeywordsOnceInListOrder ==
    pc = "keywords" =>
        /\ {out.value[i] : i \in DOMAIN out.value}
             = {kw \in {ACADEMIC_KEYWORDS(req.impl)[k] : k \in DOMAIN ACADEMIC_KEYWORDS(req.impl)} :
                    WordOccurrences(Lower(req.text), kw) # {}}
        /\ \A i, j \in DOMAIN out.value : i # j => out.value[i] # out.value[j]
        /\ \A i, j \in DOMAIN out.value :
                i < j => \E a, b \in DOMAIN ACADEMIC_KEYWORDS(req.impl) :
                            /\ a < b
                            /\ ACADEMIC_KEYWORDS(req.impl)[a] = out.value[i]
                            /\ ACADEMIC_KEYWORDS(req.impl)[b] = out.value[j]

\* the level and score the tier rule gives for a dict of category scores
TierOf(emotional_scores) ==
    LET high == Cardinality({e \in DOMAIN emotional_scores :
                                QGt(emotional_scores[e].score, QInt(6))})
        manipulation == IF "manipulation" \in DOMAIN emotional_scores
                        THEN emotional_scores["manipulation"].score ELSE QInt(0)
    IN  IF high >= 3 \/ QGt(manipulation, QInt(7)) THEN <<"critical", 90>>
        ELSE IF high >= 2 \/ QGt(manipulation, QInt(5)) THEN <<"high", 70>>
        ELSE IF high >= 1 \/ QGt(manipulation, QInt(3)) THEN <<"medium", 50>>
        ELSE <<"low", 20>>

\* C25: for every text, the empty one and runs with a failing step included,
\* manipulation_risk has a level of low, medium, high, critical and a score
\* of 20, 50, 70, 90, paired by the tier rule on the category scores
C25_ManipulationTier ==
    pc = "tone" =>
        /\ out.manipulation_risk.level \in {"low", "medium", "high", "critical"}
        /\ out.manipulation_risk.score \in {20, 50, 70, 90}
        /\ <<out.manipulation_risk.level, out.manipulation_risk.score>>
             = TierOf(out.emotional_scores)

\* the text from position i on, escaped, with every whole-word occurrence of
\* a keyword (ignoring case, the longest keyword first) inside the wrapper
RECURSIVE WholeWordsWrapped(_, _, _)
WholeWordsWrapped(text, kws, i) ==
    LET m == FirstOf({j \in i..Len(text) : KeywordsAt(text, kws, j) # {}}, 0)
    IN  IF m = 0 THEN html_escape(SubSeq(text, i, Len(text)))
        ELSE html_escape(SubSeq(text, i, m - 1)) \o OpenTag
                \o html_escape(SubSeq(text, m, m + Len(kws[FirstOf(KeywordsAt(text, kws, m), 0)]) - 1))
                \o CloseTag
                \o WholeWordsWrapped(text, kws,
                                     m + Len(kws[FirstOf(KeywordsAt(text, kws, m), 0)]))

\* C26: highlight_keywords wraps every whole-word occurrence of a keyword in
\* the text, ignoring case and keeping the casing of the text, and nothing
\* else; the longer keyword wins at a position, and a keyword inside a longer
\* word is left alone, in both implementations
C26_WholeWordOccurrencesWrapped ==
    pc = "highlight" =>
        \A kws \in KeywordOrders(req.keywords) :
            out.value = WholeWordsWrapped(req.text, kws, 1)

\* C27: a result of filter_urls with overall_risk >= 50 has a HIGH record and
\* has_suspicious_urls true, so /detect forces PHISHING with confidence
\* max(blend, 0.7) exactly when overall_risk >= 50 and otherwise decides by
\* the blend alone, a HIGH record or not
C27_OverrideIffHighMean ==
    /\ (pc = "filter" /\ QGe(out.overall_risk, QInt(50)))
            => /\ out.has_suspicious_urls
               /\ Len(out.high_risk_urls) >= 1
    /\ Answered =>
            IF QGe(out.url_analysis.overall_url_risk, QInt(50))
            THEN /\ out.url_analysis.suspicious_urls
                 /\ out.classification = "PHISHING"
                 /\ out.confidence = QMax(Blend(out), Q(7, 10))
            ELSE /\ out.confidence = Blend(out)
                 /\ out.classification = "PHISHING" <=> QGe(Blend(out), Q(45, 100))

\* a HIGH-risk URL whose companion pulls the mean under 50: no override
C27_Witness ==
    /\ Answered
    /\ out.url_analysis.high_risk_urls >= 1
    /\ QLt(out.url_analysis.overall_url_risk, QInt(50))
    /\ out.classification = "LEGITIMATE"

\* C28: when /detect answers with no URL analysed (the text has none, or the
\* URL analysis failed and its defaults are used), the confidence is 0.7
\* times the Stage-1 confidence and the classification is PHISHING exactly
\* when the Stage-1 confidence is at least 0.45 / 0.7; a Stage-1 confidence
\* under 0.45 is never reported as PHISHING
C28_NoUrlEvidence ==
    (Answered /\ out.url_analysis.urls_found = 0) =>
        /\ out.confidence = QMul(Q(7, 10), out.ml_confidence)
        /\ out.classification = "PHISHING" <=> QGe(out.ml_confidence, Q(45, 70))
        /\ QLt(out.ml_confidence, Q(45, 100)) => out.classification = "LEGITIMATE"

\* a Stage-1 PHISHING confidence in [0.45, 0.45 / 0.7) reported as LEGITIMATE
C28_Witness ==
    /\ Answered
    /\ out.url_analysis.urls_found = 0
    /\ QGe(out.ml_confidence, Q(45, 100))
    /\ QLt(out.ml_confidence, Q(45, 70))
    /\ out.classification = "LEGITIMATE"
    /\ out.confidence = QMul(Q(7, 10), out.ml_confidence)

(***************************************************************************)
(* The /detect rate limiter (app.py 50-74).  rate_limit runs before every  *)
(* request, on the thread that handles the request, and takes no lock:     *)
(* between two of its statements another thread's request may run.  A      *)
(* handler is at "clean" (now is taken, the comprehension has not run),    *)
(* "assign" (the filtered list is built, not yet stored), "check",         *)
(* "append", or has answered ("passed", "rejected").  Time is counted in   *)
(* ticks of half a minute.                                                 *)
(***************************************************************************)
RATE_LIMIT_PER_MINUTE == 2
Window == 2
MaxClock == 2
MaxRequests == 3

RequestPaths == {"/detect", "/detect/batch", "/health"}

\* request.path.startswith('/detect')
IsRateLimitedPath(path) == StartsAt(path, 1, "/detect")

\* the entries younger than one minute, in their order
CleanOldEntries(timestamps, now) ==
    LET Recent(timestamp) == now - timestamp < Window
    IN SelectSeq(timestamps, Recent)

InFlight == Cardinality({h \in HandlerIds : handlers[h].at # "idle"})

\* admissions so far, over all addresses
Admissions == Cardinality({p \in ClientIps \X (1..MaxRequests) : p[2] <= Len(admitted[p[1]])})

\* a request arrives; outside /detect the hook returns at once
Arrive(h, ip, path) ==
    /\ handlers[h].at = "idle"
    /\ Admissions + InFlight < MaxRequests
    /\ handlers' = [handlers EXCEPT ![h] =
           IF IsRateLimitedPath(path)
           THEN [at |-> "clean", ip |-> ip, path |-> path, now |-> clock, kept |-> <<>>]
           ELSE [at |-> "passed", ip |-> ip, path |-> path, now |-> clock, kept |-> <<>>]]
    /\ UNCHANGED <<MODEL_BUNDLE, pc, req, out, prev, rate_limit_store, clock, admitted, analytics>>

\* lines 65-68, the comprehension over rate_limit_store[ip]
Clean(h) ==
    /\ handlers[h].at = "clean"
    /\ handlers' = [handlers EXCEPT ![h].at = "assign",
                                    ![h].kept = CleanOldEntries(rate_limit_store[handlers[h].ip],
                                                                handlers[h].now)]
    /\ UNCHANGED <<MODEL_BUNDLE, pc, req, out, prev, rate_limit_store, clock, admitted, analytics>>

\* line 65, the store of the comprehension's list
AssignKept(h) ==
    /\ handlers[h].at = "assign"
    /\ rate_limit_store' = [rate_limit_store EXCEPT ![handlers[h].ip] = handlers[h].kept]
    /\ handlers' = [handlers EXCEPT ![h].at = "check"]
    /\ UNCHANGED <<MODEL_BUNDLE, pc, req, out, prev, clock, admitted, analytics>>

\* lines 70-71
CheckLimit(h) ==
    /\ handlers[h].at = "check"
    /\ handlers' = [handlers EXCEPT ![h].at =
           IF Len(rate_limit_store[handlers[h].ip]) >= RATE_LIMIT_PER_MINUTE
           THEN "rejected" ELSE "append"]
    /\ UNCHANGED <<MODEL_BUNDLE, pc, req, out, prev, rate_limit_store, clock, admitted, analytics>>

\* line 74; the request goes on to its view
AppendNow(h) ==
    /\ handlers[h].at = "append"
    /\ rate_limit_store' = [rate_limit_store EXCEPT ![handlers[h].ip] = Append(@, handlers[h].now)]
    /\ admitted' = [admitted EXCEPT ![handlers[h].ip] = Append(@, handlers[h].now)]
    /\ handlers' = [handlers EXCEPT ![h].at = "passed"]
    /\ UNCHANGED <<MODEL_BUNDLE, pc, req, out, prev, clock, analytics>>

\* the response is sent (429 for a rejected request) and the thread is free
Respond(h) ==
    /\ handlers[h].at \in {"passed", "rejected"}
    /\ handlers' = [handlers EXCEPT ![h] = IdleHandler]
    /\ UNCHANGED <<MODEL_BUNDLE, pc, req, out, prev, rate_limit_store, clock, admitted, analytics>>

Tick ==
    /\ clock < MaxClock
    /\ clock' = clock + 1
    /\ UNCHANGED <<MODEL_BUNDLE, pc, req, out, prev, rate_limit_store, handlers, admitted, analytics>>

RateNext ==
    \/ \E h \in HandlerIds, ip \in ClientIps, path \in RequestPaths : Arrive(h, ip, path)
    \/ \E h \in HandlerIds : Clean(h)
    \/ \E h \in HandlerIds : AssignKept(h)
    \/ \E h \in HandlerIds : CheckLimit(h)
    \/ \E h \in HandlerIds : AppendNow(h)
    \/ \E h \in HandlerIds : Respond(h)
    \/ Tick

RateSpec == Init /\ [][RateNext]_vars

\* how often a timestamp occurs in a list
TimesIn(timestamps, t) == Cardinality({i \in DOMAIN timestamps : timestamps[i] = t})

\* C29: for each client address, at most RATE_LIMIT_PER_MINUTE admitted
\* requests have their times within any window of one minute, however the
\* requests being handled interleave; the store holds only times of admitted
\* requests of that address (a 429 is not recorded, another address or path
\* consumes nothing); a request outside /detect is never rejected, and a
\* rejected request's own address has used its quota.
C29_SlidingWindowQuota ==
    /\ \A ip \in ClientIps : \A start \in 0..MaxClock :
          Cardinality({i \in DOMAIN admitted[ip] :
              start <= admitted[ip][i] /\ admitted[ip][i] < start + Window})
              <= RATE_LIMIT_PER_MINUTE
    /\ \A ip \in ClientIps : \A t \in 0..MaxClock :
          TimesIn(rate_limit_store[ip], t) <= TimesIn(admitted[ip], t)
    /\ \A h \in HandlerIds :
          handlers[h].at = "rejected" =>
              /\ IsRateLimitedPath(handlers[h].path)
              /\ Len(admitted[handlers[h].ip]) >= RATE_LIMIT_PER_MINUTE

(***************************************************************************)
(* The analytics tables (modules/analytics/database.py).  A prediction is  *)
(* a row of prediction_history; daily_statistics is a set of rows whose    *)
(* date column is UNIQUE (line 38), so INSERT OR REPLACE removes the row   *)
(* that holds the same date before it inserts.  All calls happen on one    *)
(* day; the id, avg_confidence and high_confidence_phishing columns are    *)
(* left out.                                                               *)
(***************************************************************************)
Institutions == {"Default", "North Campus"}
Classifications == {"PHISHING", "LEGITIMATE"}
Today == "2024-03-01"
MaxHistory == 3

\* SELECT ... FROM prediction_history WHERE DATE(timestamp) = ? AND institution = ?
TodaysPredictions(history, institution) ==
    {i \in DOMAIN history : history[i].date = Today /\ history[i].institution = institution}

CountOf(history, institution, classification) ==
    Cardinality({i \in TodaysPredictions(history, institution) :
                    history[i].classification = classification})

StatisticsRow(history, institution) ==
    [date |-> Today,
     total_emails |-> Cardinality(TodaysPredictions(history, institution)),
     phishing_count |-> CountOf(history, institution, "PHISHING"),
     legitimate_count |-> CountOf(history, institution, "LEGITIMATE"),
     institution |-> institution]

\* INSERT OR REPLACE under the UNIQUE(date) constraint
InsertOrReplace(table, row) == {r \in table : r.date # row.date} \cup {row}

log_prediction(history, classification, institution) ==
    Append(history, [date |-> Today, classification |-> classification,
                     institution |-> institution])

update_daily_statistics(table, history, institution) ==
    IF Cardinality(TodaysPredictions(history, institution)) > 0
    THEN InsertOrReplace(table, StatisticsRow(history, institution))
    ELSE table

CallLogPrediction(classification, institution) ==
    /\ Len(prediction_history) < MaxHistory
    /\ prediction_history' = log_prediction(prediction_history, classification, institution)
    /\ UNCHANGED <<MODEL_BUNDLE, pc, req, out, prev, web, daily_statistics>>

CallUpdateDailyStatistics(institution) ==
    /\ daily_statistics' = update_daily_statistics(daily_statistics, prediction_history, institution)
    /\ UNCHANGED <<MODEL_BUNDLE, pc, req, out, prev, web, prediction_history>>

\* routes.py 117-137: the /detect handler logs the prediction and refreshes
\* the statistics of the request's institution
LogAnalytics(classification, institution) ==
    /\ Len(prediction_history) < MaxHistory
    /\ prediction_history' = log_prediction(prediction_history, classification, institution)
    /\ daily_statistics' = update_daily_statistics(daily_statistics, prediction_history', institution)
    /\ UNCHANGED <<MODEL_BUNDLE, pc, req, out, prev, web>>

AnalyticsNext ==
    \/ \E c \in Classifications, i \in Institutions : CallLogPrediction(c, i)
    \/ \E i \in Institutions : CallUpdateDailyStatistics(i)
    \/ \E c \in Classifications, i \in Institutions : LogAnalytics(c, i)

AnalyticsSpec == Init /\ [][AnalyticsNext]_vars

\* today's rows of one institution
RowsFor(table, institution) ==
    {r \in table : r.date = Today /\ r.institution = institution}

\* C30: once update_daily_statistics(A) has run, alone or in the handler,
\* daily_statistics holds exactly one row of today for A when A has
\* predictions today, with total, phishing and legitimate counts equal to
\* A's counts in prediction_history, and the row of every other institution
\* is what it was before the call.
C30_RowPerInstitution ==
    [][\A a \in Institutions :
          (CallUpdateDailyStatistics(a) \/ \E c \in Classifications : LogAnalytics(c, a)) =>
              /\ TodaysPredictions(prediction_history', a) # {} =>
                    RowsFor(daily_statistics', a) = {StatisticsRow(prediction_history', a)}
              /\ \A b \in Institutions \ {a} :
                    RowsFor(daily_statistics', b) = RowsFor(daily_statistics, b)]_vars

====
